---- MODULE Spec2Model ----
(***************************************************************************)
(* In-process messaging runtime of react-solid-principle: the event bus    *)
(* (EventBus, RetryableEventBus), the command bus (SimpleCommandBus) and   *)
(* the service container (ModularContainer).                               *)
(***************************************************************************)
EXTENDS Integers, Sequences, FiniteSets, TLC

\* ---------------------------------------------------------------- bounds
MaxHandlers == 2        \* handlers registered per event type
MaxEvents == 2          \* events handed to one publishAll call
MaxBatchHandlers == 1   \* handlers per event type while a retried batch is in flight
MaxRegistrations == 3   \* register calls on a command bus between two clear calls
MaxBinds == 3           \* bind calls on a container between two clear calls
MaxGets == 3            \* get calls counted per binding
MaxMiddlewares == 2     \* middlewares added to a MiddlewareCommandBus
MaxMwHandlers == 1      \* handlers registered through a MiddlewareCommandBus
MaxPairHandlers == 2    \* handlers given to a command bus and a query bus side by side
MaxUsers == 25          \* users that match a GetUsersQuery
MaxPage == 4            \* pagination.page of a GetUsersQuery
MaxLimit == 10          \* pagination.limit of a GetUsersQuery
MaxCommandObjects == 3  \* command objects constructed
MaxClock == 3           \* milliseconds Date.now() advances
MaxTotalItems == 21      \* total passed to setTotalItems
MaxPageSize == 10        \* size passed to setPageSize
MaxGoTo == 4             \* page passed to goToPage
MaxPromises == 4         \* promises passed to execute of one useAsyncState
MaxUserCalls == 3       \* handle calls of the user command handlers on one repository

\* maxRetries: number = 3 (default of the RetryableEventBus constructor)
DefaultMaxRetries == 3

EventTypes == {"UserCreated", "UserUpdated"}
EvIdx == 1..MaxEvents

\* ------------------------------------------------------------- event bus
VARIABLES
    handlers,       \* EventBus.handlers: eventType -> number of handlers pushed
    kind,           \* the call in progress: none / publish / publishAll / retryPublish / retryPublishAll
    events,         \* the events of the call, in list order (their eventType)
    pst,            \* per event: state of the promise of EventBus.publish(event)
    pubErr,         \* per event: the error EventBus.publish(event) rejected with
    accepted,       \* per event: handlers.filter(h => h.canHandle(event))
    promises,       \* per event: the mapped handler promises (handler, state)
    elog,           \* per event: entries EventBus.publish wrote to the logger
    handleCalls,    \* per event: handle() invocations since the call began
    idx,            \* EventBus.publishAll: position of the for..of loop
    allSt,          \* state of the promise of publishAll
    maxRetries,     \* RetryableEventBus.maxRetries
    rst,            \* per event: state of RetryableEventBus.publish(event)
    attempt,        \* per event: loop variable attempt
    lastError,      \* per event: local lastError
    retryErr,       \* per event: the Error thrown after the loop
    failedCalls,    \* per event: EventBus.publish invocations that rejected
    publishCalls    \* per event: EventBus.publish invocations since the call began

\* ----------------------------------------------------------- command bus
VARIABLES
    cmdHandlers,    \* SimpleCommandBus.handlers: the Map, as its entries in insertion order
    registered,     \* the handlers given to register since the last clear, in call order
    cmd,            \* the command of the execute call in progress
    cst,            \* state of the promise of execute(command)
    handled,        \* the handlers whose handle(command) the call invoked, in order
    hval,           \* what handler.handle(command) settled with
    cres,           \* what execute(command) settled with
    clog            \* the logger calls of the execute call

cmdVars == <<cmdHandlers, registered, cmd, cst, handled, hval, cres, clog>>

\* ------------------------------------------------------------- container
VARIABLES
    bindings,       \* ModularContainer.bindings: identifier -> ContainerBinding
    instances,      \* ModularContainer.instances: identifier -> cached instance
    binds,          \* bind(...).toX calls since the last clear: names what each one bound
    made,           \* per identifier: factory/constructor invocations since it was last bound
    gets,           \* per identifier: get calls that returned since it was last bound
    results,        \* per identifier: what those get calls returned
    lastGet         \* outcome of the latest get call

ctrVars == <<bindings, instances, binds, made, gets, results, lastGet>>

\* ------------------------------------------------- MiddlewareCommandBus
VARIABLES
    middlewares,    \* MiddlewareCommandBus.middlewares, in addMiddleware order
    mcmd,           \* the command of the MiddlewareCommandBus.execute call in progress
    mst,            \* state of that call: "none", "inner", "unwinding", "resolved", "rejected"
    mdepth,         \* how many middleware layers are entered and have not completed
    mout,           \* what the innermost completed layer settled with
    mtrace,         \* the layers entered and completed and the inner bus calls, in order
    mlog            \* the logger calls of the middlewares

mwVars == <<middlewares, mcmd, mst, mdepth, mout, mtrace, mlog>>

\* -------------------------------------------------------- SimpleQueryBus
VARIABLES
    qHandlers,      \* SimpleQueryBus.handlers: the Map, as its entries in insertion order
    qregistered,    \* the handlers given to register since the last clear, in call order
    qry,            \* the query of the execute call in progress
    qst,            \* state of the promise of execute(query)
    qhandled,       \* the handlers whose handle(query) the call invoked, in order
    qhval,          \* what handler.handle(query) settled with
    qres,           \* what execute(query) settled with
    qlog            \* the logger calls of the execute call

qryVars == <<qHandlers, qregistered, qry, qst, qhandled, qhval, qres, qlog>>

\* ---------------------------------------------------------------- Result
VARIABLES
    result,         \* the Result object at hand
    rop,            \* how it was made: "none", "success", "failure", "map", "flatMap"
    rarg,           \* the value / error given to Result.success / Result.failure
    rsrc,           \* the Result that map / flatMap was called on
    rfn,            \* the function given to map / flatMap
    rcalls,         \* how often map / flatMap called that function
    rread           \* what reading isSuccess, isFailure, value and error of it gave

resVars == <<result, rop, rarg, rsrc, rfn, rcalls, rread>>

\* ----------------------------------------------------- GetUsersQueryHandler
VARIABLES
    gq,             \* the GetUsersQuery last handled: page, limit, sort, number of matching users
    gres            \* the PaginatedResult that handle returned for it

pagVars == <<gq, gres>>

\* -------------------------------------------------- user command handlers
VARIABLES
    ustore,         \* InMemoryUserRepository.users: id -> the UserEntity object held
    unext,          \* how many ids generateUserId has handed out
    ucalls,         \* how many handle calls have begun; stands for the time new Date() gives
    ucall,          \* the handle call in progress: command, position, locals
    usteps,         \* the save and publish invocations of that call, in order
    ures,           \* the Result the call returned
    uhist           \* the calls that returned, in order: command, Result, invocations

usrVars == <<ustore, unext, ucalls, ucall, usteps, ures, uhist>>

\* -------------------------------------------------- command construction
VARIABLES
    clock,          \* what Date.now() returns
    constructed     \* the command objects constructed so far, in order

idVars == <<clock, constructed>>

\* -------------------------------------------------- usePagination
VARIABLES
    pstate          \* the PaginationState held by useState

hookVars == <<pstate>>

\* -------------------------------------------------- useAsyncState
VARIABLES
    astate,         \* the AsyncState held by useState
    executed        \* per promise passed to execute: pending / fulfilled / rejected

asyncVars == <<astate, executed>>

busVars == <<handlers, kind, events, pst, pubErr, accepted, promises, elog,
             handleCalls, idx, allSt>>
retryVars == <<maxRetries, rst, attempt, lastError, retryErr, failedCalls,
               publishCalls>>
vars == <<busVars, retryVars, cmdVars, ctrVars, mwVars, qryVars, resVars, pagVars, usrVars, idVars, hookVars, asyncVars>>

\* what the operations of one component leave alone
notEvents == <<cmdVars, ctrVars, mwVars, qryVars, resVars, pagVars, usrVars, idVars, hookVars, asyncVars>>
notCommands == <<busVars, retryVars, ctrVars, mwVars, qryVars, resVars, pagVars, usrVars, idVars, hookVars, asyncVars>>
notContainer == <<busVars, retryVars, cmdVars, mwVars, qryVars, resVars, pagVars, usrVars, idVars, hookVars, asyncVars>>
notMiddleware == <<busVars, retryVars, ctrVars, qryVars, resVars, pagVars, usrVars, idVars, hookVars, asyncVars>>
notResult == <<busVars, retryVars, cmdVars, ctrVars, mwVars, qryVars, pagVars, usrVars, idVars, hookVars, asyncVars>>
notPagination == <<busVars, retryVars, cmdVars, ctrVars, mwVars, qryVars, resVars, usrVars, idVars, hookVars, asyncVars>>
notUsers == <<busVars, retryVars, cmdVars, ctrVars, mwVars, qryVars, resVars, pagVars, idVars, hookVars, asyncVars>>
notCommandIds == <<busVars, retryVars, cmdVars, ctrVars, mwVars, qryVars, resVars, pagVars, usrVars, hookVars, asyncVars>>
notHook == <<busVars, retryVars, cmdVars, ctrVars, mwVars, qryVars, resVars, pagVars, usrVars, idVars, asyncVars>>
notAsync == <<busVars, retryVars, cmdVars, ctrVars, mwVars, qryVars, resVars, pagVars, usrVars, idVars, hookVars>>
notQueries == <<busVars, retryVars, cmdVars, ctrVars, mwVars, resVars, pagVars, usrVars, idVars, hookVars, asyncVars>>

NoError == "undefined"

\* A handler object is named by the registration that pushed it.
Handler(t, p) == <<t, p>>

\* mutant: with no handler for the type, the handlers of the other types are taken
HandlersOfAnyType(t) ==
    IF handlers[t] > 0 THEN [p \in 1..handlers[t] |-> Handler(t, p)]
    ELSE LET o == CHOOSE o \in EventTypes : o # t
         IN  [p \in 1..handlers[o] |-> Handler(o, p)]

\* this.handlers.get(event.eventType) || []
HandlersFor(t) == [p \in 1..handlers[t] |-> Handler(t, p)]

\* What one handler does when asked: "F" canHandle returns false, "X" canHandle
\* throws, "P" it accepts and handle returns a pending promise, "S" it accepts
\* and handle throws before returning.
Outcomes == {"F", "X", "P", "S"}

EventLists == UNION {[1..n -> EventTypes] : n \in 0..MaxEvents}

Idle == [i \in EvIdx |-> "idle"]
Zero == [i \in EvIdx |-> 0]
NoSeq == [i \in EvIdx |-> <<>>]
NoErrors == [i \in EvIdx |-> NoError]

Min(S) == CHOOSE x \in S : \A y \in S : x <= y

\* handlers.filter(handler => handler.canHandle(event))
Filter(hs, out) == SelectSeq(hs, LAMBDA h : out[h[2]] \in {"P", "S"})

\* mutant: no try/catch around handle, so the first throw ends the map
InvokeAllAbort(acc, out) ==
    LET n == IF \E k \in 1..Len(acc) : out[acc[k][2]] = "S"
             THEN Min({k \in 1..Len(acc) : out[acc[k][2]] = "S"}) ELSE Len(acc)
    IN  [k \in 1..n |->
            [h |-> acc[k], st |-> IF out[acc[k][2]] = "S" THEN "failed" ELSE "pending"]]

\* .map(async handler => { try { await handler.handle(event) ... } catch { log } })
\* every accepted handler is invoked; a throw is caught inside its own promise
InvokeAll(acc, out) ==
    [k \in 1..Len(acc) |->
        [h |-> acc[k], st |-> IF out[acc[k][2]] = "S" THEN "failed" ELSE "pending"]]

\* EventBus.publish up to its first suspension: the result of the synchronous part
BusPublish(t, out, call) ==
    LET hs == HandlersFor(t)
        throwers == {p \in 1..Len(hs) : out[p] = "X"}
    IN  IF Len(hs) = 0
        THEN [st |-> "resolved", err |-> NoError, accepted |-> <<>>, promises |-> <<>>,
              log |-> <<"info:publishing", "warn:no-handlers">>]
        ELSE IF throwers # {}
        THEN [st |-> "rejected", err |-> <<"canHandle", hs[Min(throwers)], call>>,
              accepted |-> <<>>, promises |-> <<>>, log |-> <<"info:publishing">>]
        ELSE [st |-> "running", err |-> NoError, accepted |-> Filter(hs, out),
              promises |-> InvokeAll(Filter(hs, out), out),
              log |-> <<"info:publishing">>]

\* f with the entries of the publish calls in `gone` dropped: the locals of a
\* publish that returned are gone once its caller has resumed
Drop(f, gone, init) == [j \in EvIdx |-> IF j \in gone THEN init ELSE f[j]]

\* this.publish(event) / this.eventBus.publish(event) for the event at position i,
\* called by code that resumed after the publish calls in `gone`
DoBusPublish(i, t, out, gone) ==
    LET r == BusPublish(t, out, publishCalls[i] + 1)
    IN  /\ pst' = [pst EXCEPT ![i] = r.st]
        /\ pubErr' = [pubErr EXCEPT ![i] = r.err]
        /\ accepted' = [Drop(accepted, gone, <<>>) EXCEPT ![i] = r.accepted]
        /\ promises' = [Drop(promises, gone, <<>>) EXCEPT ![i] = r.promises]
        /\ elog' = [Drop(elog, gone, <<>>) EXCEPT ![i] = r.log]
        /\ handleCalls' = [handleCalls EXCEPT ![i] = @ + Len(r.promises)]
        /\ publishCalls' = [publishCalls EXCEPT ![i] = @ + 1]

Pending(i) == {k \in 1..Len(promises[i]) : promises[i][k].st = "pending"}

\* the promise the caller holds
CallState ==
    CASE kind = "none" -> "none"
      [] kind = "publish" -> pst[1]
      [] kind = "retryPublish" -> rst[1]
      [] OTHER -> allSt

\* the call has settled and nothing it started is still running
Quiescent ==
    /\ CallState \in {"resolved", "rejected"}
    /\ \A i \in EvIdx : pst[i] # "running" /\ rst[i] \notin {"awaiting", "delay"}

InitEvents ==
    /\ handlers = [t \in EventTypes |-> 0]
    /\ kind = "none"
    /\ events = <<>>
    /\ pst = Idle
    /\ pubErr = NoErrors
    /\ accepted = NoSeq
    /\ promises = NoSeq
    /\ elog = NoSeq
    /\ handleCalls = Zero
    /\ idx = 0
    /\ allSt = "none"
    /\ maxRetries = DefaultMaxRetries
    /\ rst = Idle
    /\ attempt = Zero
    /\ lastError = NoErrors
    /\ retryErr = NoErrors
    /\ failedCalls = Zero
    /\ publishCalls = Zero

\* a call begins: there is one caller, and it makes one call at a time
Fresh(k, evs) ==
    /\ kind = "none"
    /\ kind' = k
    /\ events' = evs
    /\ UNCHANGED <<handlers, maxRetries>>

\* EventBus.register(eventType, handler)
Register(t, max) ==
    /\ kind = "none"
    /\ handlers[t] < max
    /\ handlers' = [handlers EXCEPT ![t] = @ + 1]
    /\ UNCHANGED <<kind, events, pst, pubErr, accepted, promises, elog, handleCalls,
                   idx, allSt, retryVars>>
    /\ UNCHANGED notEvents

\* EventBus.clear()
Clear ==
    /\ kind = "none"
    /\ \E t \in EventTypes : handlers[t] > 0
    /\ handlers' = [t \in EventTypes |-> 0]
    /\ UNCHANGED <<kind, events, pst, pubErr, accepted, promises, elog, handleCalls,
                   idx, allSt, retryVars>>
    /\ UNCHANGED notEvents

NoRetry == UNCHANGED <<rst, attempt, lastError, retryErr, failedCalls>>

\* EventBus.publish(event), called directly
Publish(t, out) ==
    /\ Fresh("publish", <<t>>)
    /\ DoBusPublish(1, t, out, {})
    /\ idx' = 0
    /\ allSt' = "none"
    /\ NoRetry
    /\ UNCHANGED notEvents

\* EventBus.publishAll(events): the call, up to the first await this.publish(event)
PublishAll(evs, out) ==
    /\ Fresh("publishAll", evs)
    /\ NoRetry
    /\ IF Len(evs) = 0
       THEN /\ allSt' = "resolved"
            /\ idx' = 0
            /\ UNCHANGED <<pst, pubErr, accepted, promises, elog, handleCalls,
                           publishCalls>>
       ELSE /\ allSt' = "running"
            /\ idx' = 1
            /\ DoBusPublish(1, evs[1], out, {})
    /\ UNCHANGED notEvents

\* mutant: this.publish(event) is not awaited
PublishReturnedEarly(st) == st \in {"running", "resolved"}

\* await this.publish(event) has returned
PublishReturned(st) == st = "resolved"

\* for (const event of events) { await this.publish(event) }: the next iteration
PublishAllNext(out) ==
    /\ kind = "publishAll" /\ allSt = "running"
    /\ PublishReturned(pst[idx])
    /\ idx < Len(events)
    /\ idx' = idx + 1
    /\ DoBusPublish(idx + 1, events[idx + 1], out, {idx})
    /\ UNCHANGED <<handlers, kind, events, allSt, maxRetries, rst, attempt, lastError,
                   retryErr, failedCalls>>
    /\ UNCHANGED notEvents

\* the loop is over: "All events published successfully"
PublishAllDone ==
    /\ kind = "publishAll" /\ allSt = "running"
    /\ pst[idx] = "resolved"
    /\ idx = Len(events)
    /\ allSt' = "resolved"
    /\ accepted' = Drop(accepted, {idx}, <<>>)
    /\ promises' = Drop(promises, {idx}, <<>>)
    /\ elog' = Drop(elog, {idx}, <<>>)
    /\ UNCHANGED <<handlers, kind, events, pst, pubErr, handleCalls, idx, retryVars>>
    /\ UNCHANGED notEvents

\* await this.publish(event) throws out of the loop
PublishAllFail ==
    /\ kind = "publishAll" /\ allSt = "running"
    /\ pst[idx] = "rejected"
    /\ allSt' = "rejected"
    /\ UNCHANGED <<handlers, kind, events, pst, pubErr, accepted, promises, elog,
                   handleCalls, idx, retryVars>>
    /\ UNCHANGED notEvents

\* the caller is done with the settled call; the next call starts afresh
CallReturns ==
    /\ Quiescent
    /\ kind' = "none"
    /\ events' = <<>>
    /\ pst' = Idle /\ pubErr' = NoErrors /\ accepted' = NoSeq
    /\ promises' = NoSeq /\ elog' = NoSeq /\ handleCalls' = Zero
    /\ idx' = 0 /\ allSt' = "none"
    /\ rst' = Idle /\ attempt' = Zero /\ lastError' = NoErrors
    /\ retryErr' = NoErrors /\ failedCalls' = Zero /\ publishCalls' = Zero
    /\ UNCHANGED <<handlers, maxRetries>>
    /\ UNCHANGED notEvents

\* mutant: each publish of the batch is awaited before the next one starts
MapAwaitsPrevious(prev) == prev \in {"none", "resolved", "rejected"}

\* events.map(event => this.publish(event)) calls publish for the next event
\* whatever became of the previous call (prev: its state)
MapCallsNext(prev) == TRUE

\* RetryableEventBus.publishAll is still inside events.map: it runs on without
\* suspension, so nothing else runs
InMap ==
    /\ kind = "retryPublishAll"
    /\ idx < Len(events)
    /\ MapCallsNext(IF idx = 0 THEN "none" ELSE rst[idx])

\* await handler.handle(event) settles: debug on success, error on failure
HandlerSettle(i, k, ok) ==
    /\ pst[i] = "running"
    /\ ~InMap
    /\ k \in Pending(i)
    /\ promises' = [promises EXCEPT ![i][k].st = IF ok THEN "ok" ELSE "failed"]
    /\ UNCHANGED <<handlers, kind, events, pst, pubErr, accepted, elog, handleCalls,
                   idx, allSt, retryVars>>
    /\ UNCHANGED notEvents

\* a Promise.all over handler promises that reject when their handler fails
AllSettledStrict(ps) ==
    IF \E k \in 1..Len(ps) : ps[k].st = "failed" THEN "rejected" ELSE "resolved"

\* await Promise.all(promises): every mapped promise catches its handler's
\* error, so all of them fulfil
AllSettled(ps) == "resolved"

\* await Promise.all(promises) returns; "Event processing completed" is logged
PublishComplete(i) ==
    /\ pst[i] = "running"
    /\ ~InMap
    /\ Pending(i) = {}
    /\ pst' = [pst EXCEPT ![i] = AllSettled(promises[i])]
    /\ elog' = [elog EXCEPT ![i] = Append(@, "info:completed")]
    /\ UNCHANGED <<handlers, kind, events, pubErr, accepted, promises, handleCalls,
                   idx, allSt, retryVars>>
    /\ UNCHANGED notEvents

\* ------------------------------------------------------ RetryableEventBus
\* new RetryableEventBus(eventBus, logger, maxRetries)
NewRetryableEventBus(m) ==
    /\ kind = "none"
    /\ m # maxRetries
    /\ maxRetries' = m
    /\ UNCHANGED <<busVars, rst, attempt, lastError, retryErr, failedCalls, publishCalls>>
    /\ UNCHANGED notEvents

\* mutant: the return is missing, the loop goes on after a success
OnDelegateResolvedLoop(a, max) == IF a < max THEN "delay" ELSE "resolved"

\* return; // Success, exit retry loop
OnDelegateResolved(a, max) == "resolved"

\* mutant: only the first error is kept (lastError ??= error)
CatchFirstError(prev, err) == IF prev = NoError THEN err ELSE prev

\* lastError = error as Error
CatchError(prev, err) == err

\* if (attempt < this.maxRetries) await this.delay(...), else the loop ends
AfterFailure(a, max) == IF a < max THEN "delay" ELSE "rejected"

\* new Error(`Failed to publish event after ${maxRetries} attempts: ${lastError?.message}`)
RetryFailure(max, last) == [attempts |-> max, cause |-> last]

\* RetryableEventBus.publish(event) up to its first await, for the event at i
RetryStart(i, t, out) ==
    /\ UNCHANGED <<lastError, failedCalls>>
    /\ IF 1 <= maxRetries
       THEN /\ DoBusPublish(i, t, out, {})
            /\ rst' = [rst EXCEPT ![i] = "awaiting"]
            /\ attempt' = [attempt EXCEPT ![i] = 1]
            /\ UNCHANGED retryErr
       ELSE /\ UNCHANGED <<pst, pubErr, accepted, promises, elog, handleCalls,
                           publishCalls>>
            /\ rst' = [rst EXCEPT ![i] = "rejected"]
            /\ attempt' = [attempt EXCEPT ![i] = 1]
            /\ retryErr' = [retryErr EXCEPT
                              ![i] = RetryFailure(maxRetries, NoError)]

\* RetryableEventBus.publish(event), called directly
RetryPublish(t, out) ==
    /\ Fresh("retryPublish", <<t>>)
    /\ idx' = 0
    /\ allSt' = "none"
    /\ RetryStart(1, t, out)
    /\ UNCHANGED notEvents

\* await this.eventBus.publish(event) returned
RetryOnResolve(i) ==
    /\ rst[i] = "awaiting"
    /\ pst[i] = "resolved"
    /\ ~InMap
    /\ rst' = [rst EXCEPT ![i] = OnDelegateResolved(attempt[i], maxRetries)]
    /\ accepted' = Drop(accepted, {i}, <<>>)
    /\ promises' = Drop(promises, {i}, <<>>)
    /\ elog' = Drop(elog, {i}, <<>>)
    /\ UNCHANGED <<handlers, kind, events, pst, pubErr, handleCalls, idx, allSt,
                   maxRetries, attempt, lastError, retryErr, failedCalls, publishCalls>>
    /\ UNCHANGED notEvents

\* await this.eventBus.publish(event) threw: the catch block and what follows it
RetryOnReject(i) ==
    /\ rst[i] = "awaiting"
    /\ pst[i] = "rejected"
    /\ ~InMap
    /\ lastError' = [lastError EXCEPT ![i] = CatchError(@, pubErr[i])]
    /\ failedCalls' = [failedCalls EXCEPT ![i] = @ + 1]
    /\ rst' = [rst EXCEPT ![i] = AfterFailure(attempt[i], maxRetries)]
    /\ retryErr' = [retryErr EXCEPT ![i] =
                      IF AfterFailure(attempt[i], maxRetries) = "rejected"
                      THEN RetryFailure(maxRetries, lastError'[i]) ELSE @]
    /\ UNCHANGED <<busVars, maxRetries, attempt, publishCalls>>
    /\ UNCHANGED notEvents

\* the delay (or the loop after a success that did not return) is over:
\* attempt++ and the next this.eventBus.publish(event)
RetryDelayElapsed(i, out) ==
    /\ rst[i] = "delay"
    /\ ~InMap
    /\ rst' = [rst EXCEPT ![i] = "awaiting"]
    /\ attempt' = [attempt EXCEPT ![i] = @ + 1]
    /\ DoBusPublish(i, events[i], out, {})
    /\ UNCHANGED <<handlers, kind, events, idx, allSt, maxRetries, lastError, retryErr,
                   failedCalls>>
    /\ UNCHANGED notEvents

\* RetryableEventBus.publishAll(events): the call, before events.map runs
RetryPublishAll(evs) ==
    /\ Fresh("retryPublishAll", evs)
    /\ idx' = 0
    /\ allSt' = "running"
    /\ UNCHANGED <<pst, pubErr, accepted, promises, elog, handleCalls, publishCalls>>
    /\ NoRetry
    /\ UNCHANGED notEvents

\* events.map(event => this.publish(event)): the next element, with no
\* suspension in between
RetryMapNext(out) ==
    /\ allSt = "running"
    /\ InMap
    /\ idx' = idx + 1
    /\ RetryStart(idx + 1, events[idx + 1], out)
    /\ UNCHANGED <<handlers, kind, events, allSt, maxRetries>>
    /\ UNCHANGED notEvents

\* await Promise.all(promises): every publish resolved
RetryPublishAllDone ==
    /\ kind = "retryPublishAll" /\ allSt = "running"
    /\ idx = Len(events)
    /\ \A i \in 1..Len(events) : rst[i] = "resolved"
    /\ allSt' = "resolved"
    /\ UNCHANGED <<handlers, kind, events, pst, pubErr, accepted, promises, elog,
                   handleCalls, idx, retryVars>>
    /\ UNCHANGED notEvents

\* await Promise.all(promises): one publish rejected (the others go on)
RetryPublishAllFail ==
    /\ kind = "retryPublishAll" /\ allSt = "running"
    /\ idx = Len(events)
    /\ \E i \in 1..Len(events) : rst[i] = "rejected"
    /\ allSt' = "rejected"
    /\ UNCHANGED <<handlers, kind, events, pst, pubErr, accepted, promises, elog,
                   handleCalls, idx, retryVars>>
    /\ UNCHANGED notEvents

\* ------------------------------------------------------ SimpleCommandBus
CommandTypes == {"CreateUserCommand", "UpdateUserCommand"}
CommandIds == {"create-user-1", "update-user-2"}
Commands == [type : CommandTypes, commandId : CommandIds]

\* handler.constructor.name of the handler classes
HandlerClasses == {"CreateUserCommandHandler", "UpdateUserCommandHandler"}

\* a handler object: its class, and the command types its canHandle accepts
HandlerObjects == [id : 1..MaxRegistrations, cls : HandlerClasses,
                   claims : SUBSET CommandTypes]

Values == {"r1", "r2"}
Errors == {"e1", "e2"}
None == "none"

\* handler.canHandle(command)
CanHandle(h, c) == c.type \in h.claims

\* this.handlers.set(handlerKey, handler): a new key goes last, a known key
\* keeps its place and gets the new value
MapSet(m, key, h) ==
    IF \E i \in 1..Len(m) : m[i].key = key
    THEN [i \in 1..Len(m) |-> IF m[i].key = key THEN [key |-> key, h |-> h] ELSE m[i]]
    ELSE Append(m, [key |-> key, h |-> h])

\* the positions of the entries whose handler claims the command
Matching(m, c) == {i \in 1..Len(m) : CanHandle(m[i].h, c)}

\* mutant: the first registered handler is taken without asking canHandle
FindFirstHandler(m, c) == IF Len(m) > 0 THEN <<m[1].h>> ELSE <<>>

\* findHandler(command): the first handler, in Map order, whose canHandle
\* accepts (<<>> for undefined)
FindHandler(m, c) ==
    IF Matching(m, c) = {} THEN <<>> ELSE <<m[Min(Matching(m, c))].h>>

\* mutant: the error names the Command interface, not the command's class
NoHandlerFoundGeneric(c) ==
    [message |-> "No handler found for command", commandType |-> "Command"]

\* new Error(`No handler found for command: ${commandType}`)
NoHandlerFound(c) ==
    [message |-> "No handler found for command", commandType |-> c.type]

\* return result as TResult
ExecuteResult(v) == v

\* mutant: the handler's error is replaced by an error of the bus
ExecuteErrorWrapped(e) == "Command execution failed"

\* throw error, in the catch block of execute
ExecuteError(e) == e

LogEntry(level, msg, meta) == [level |-> level, msg |-> msg, meta |-> meta]

InitCommands ==
    /\ cmdHandlers = <<>>
    /\ registered = <<>>
    /\ cmd = None
    /\ cst = "none"
    /\ handled = <<>>
    /\ hval = None
    /\ cres = None
    /\ clog = <<>>

\* ------------------------------------------------------ ModularContainer
ServiceIds == {"Logger", "EventBus"}
BindingTypes == {"constructor", "value", "factory", "singleton"}

\* this.bindings.get(identifier) of an identifier that was never bound
Unbound == [type |-> "unbound", value |-> 0, isSingleton |-> FALSE]

\* the ContainerBinding each method of bind(identifier) sets; value names the
\* implementation, value or factory given (by the number of the bind call)
NewBinding(type, b) ==
    [type |-> type, value |-> b, isSingleton |-> type \in {"value", "singleton"}]

\* the switch in get: the value itself, or what the n-th invocation of the
\* factory / constructor returns
Resolve(binding, n) ==
    IF binding.type = "value" THEN <<"value", binding.value>>
    ELSE <<"new", binding.value, n>>

\* whether resolving invokes the factory / constructor
Invokes(binding) == binding.type \in {"factory", "constructor", "singleton"}

\* mutant: the error does not say which identifier was asked for
NoBindingFoundAnonymous(id) == <<"No binding found for identifier", "identifier">>

\* new Error(`No binding found for identifier: ${identifier.toString()}`)
NoBindingFound(id) == <<"No binding found for identifier", id>>

InitContainer ==
    /\ bindings = [id \in ServiceIds |-> Unbound]
    /\ instances = [id \in ServiceIds |-> <<>>]
    /\ binds = 0
    /\ made = [id \in ServiceIds |-> 0]
    /\ gets = [id \in ServiceIds |-> 0]
    /\ results = [id \in ServiceIds |-> {}]
    /\ lastGet = [id |-> None, ok |-> TRUE, value |-> <<>>]

\* container.bind(identifier).to / toValue / toFactory / toSingleton
Bind(id, type) ==
    /\ binds < MaxBinds
    /\ binds' = binds + 1
    /\ bindings' = [bindings EXCEPT ![id] = NewBinding(type, binds + 1)]
    /\ made' = [made EXCEPT ![id] = 0]
    /\ gets' = [gets EXCEPT ![id] = 0]
    /\ results' = [results EXCEPT ![id] = {}]
    /\ UNCHANGED <<instances, lastGet>>
    /\ UNCHANGED notContainer

\* container.get(identifier)
Get(id) ==
    /\ gets[id] < MaxGets
    /\ IF instances[id] # <<>>
       THEN /\ lastGet' = [id |-> id, ok |-> TRUE, value |-> instances[id][1]]
            /\ gets' = [gets EXCEPT ![id] = @ + 1]
            /\ results' = [results EXCEPT ![id] = @ \cup {instances[id][1]}]
            /\ UNCHANGED <<instances, made>>
       ELSE IF bindings[id] = Unbound
       THEN /\ lastGet' = [id |-> id, ok |-> FALSE, value |-> NoBindingFound(id)]
            /\ UNCHANGED <<instances, made, gets, results>>
       ELSE LET instance == Resolve(bindings[id], made[id] + 1)
            IN  /\ made' = [made EXCEPT ![id] = IF Invokes(bindings[id]) THEN @ + 1 ELSE @]
                /\ instances' = [instances EXCEPT ![id] =
                                   IF bindings[id].isSingleton THEN <<instance>> ELSE @]
                /\ lastGet' = [id |-> id, ok |-> TRUE, value |-> instance]
                /\ gets' = [gets EXCEPT ![id] = @ + 1]
                /\ results' = [results EXCEPT ![id] = @ \cup {instance}]
    /\ UNCHANGED <<bindings, binds>>
    /\ UNCHANGED notContainer

\* container.clear()
ContainerClear ==
    /\ binds > 0
    /\ bindings' = [id \in ServiceIds |-> Unbound]
    /\ instances' = [id \in ServiceIds |-> <<>>]
    /\ binds' = 0
    /\ made' = [id \in ServiceIds |-> 0]
    /\ gets' = [id \in ServiceIds |-> 0]
    /\ results' = [id \in ServiceIds |-> {}]
    /\ UNCHANGED lastGet
    /\ UNCHANGED notContainer

\* ------------------------------------------------- MiddlewareCommandBus
MiddlewareKinds == {"LoggingCommandMiddleware", "ValidationCommandMiddleware"}
Undefined == "undefined"

\* commands as a caller can build them: commandId or timestamp may be missing
MwCommands == [type : CommandTypes, commandId : {"create-user-1", "", Undefined},
               timestamp : {"2024-01-01T00:00:00Z", Undefined}]

\* !x of JavaScript, for a string or a Date that may be undefined
Falsy(x) == x \in {Undefined, ""}

\* mutant: only the commandId is looked at
ValidIdOnly(c) == ~Falsy(c.commandId)

\* the negation of the test of ValidationCommandMiddleware.execute
Valid(c) == ~(Falsy(c.commandId) \/ Falsy(c.timestamp))

\* new Error('Invalid command: missing required fields')
InvalidCommand == [message |-> "Invalid command: missing required fields"]

Outcome(ok, value) == [ok |-> ok, value |-> value]
NoOutcome == Outcome(TRUE, None)

\* mutant: the loop runs forward, so the last middleware wraps all the others
PipelineForward(mws) == [k \in 1..Len(mws) |-> Len(mws) + 1 - k]

\* the layers of the pipeline from the outermost inwards, as positions in
\* this.middlewares: the loop from length - 1 down to 0 wraps the last
\* middleware first, so the first one ends up outermost
Pipeline(mws) == [k \in 1..Len(mws) |-> k]

\* the layers a call enters before it reaches the inner bus or a
\* ValidationCommandMiddleware throws (0: none throws)
ThrowingLayer(mws, c) ==
    LET stops == {k \in 1..Len(mws) :
                    /\ mws[Pipeline(mws)[k]] = "ValidationCommandMiddleware"
                    /\ ~Valid(c)}
    IN  IF stops = {} THEN 0 ELSE Min(stops)

\* what the layers 1..entered log on the way in: the Logging start entry,
\* the Validation error entry of the layer that throws
EntryLog(mws, c, entered) ==
    LET skip == LogEntry("skip", "", [commandType |-> c.type])
        line(k) ==
            IF mws[Pipeline(mws)[k]] = "LoggingCommandMiddleware"
            THEN LogEntry("info", "[MIDDLEWARE] Starting command",
                          [commandType |-> c.type, commandId |-> c.commandId])
            ELSE IF ~Valid(c)
            THEN LogEntry("error", "Command validation failed", [commandType |-> c.type])
            ELSE skip
    IN  SelectSeq([k \in 1..entered |-> line(k)], LAMBDA e : e.level # "skip")

InitMiddleware ==
    /\ middlewares = <<>>
    /\ mcmd = None
    /\ mst = "none"
    /\ mdepth = 0
    /\ mout = NoOutcome
    /\ mtrace = <<>>
    /\ mlog = <<>>

\* -------------------------------------------------------- SimpleQueryBus
QueryTypes == {"GetUserByIdQuery", "GetUsersQuery"}
QueryIds == {"get-user-1", "get-users-2"}
Queries == [type : QueryTypes, queryId : QueryIds]

\* handler.constructor.name of the query handler classes
QueryHandlerClasses == {"GetUserByIdQueryHandler", "GetUsersQueryHandler"}

\* handler.canHandle(query)
QCanHandle(h, q) == q.type \in h.claims

\* the positions of the entries whose handler claims the query
QMatching(m, q) == {i \in 1..Len(m) : QCanHandle(m[i].h, q)}

\* mutant: the last handler that claims the query is taken
QFindLastHandler(m, q) ==
    IF QMatching(m, q) = {} THEN <<>>
    ELSE <<m[CHOOSE i \in QMatching(m, q) : \A j \in QMatching(m, q) : j <= i].h>>

\* findHandler(query): the first handler, in Map order, whose canHandle accepts
QFindHandler(m, q) ==
    IF QMatching(m, q) = {} THEN <<>> ELSE <<m[Min(QMatching(m, q))].h>>

\* new Error(`No handler found for query: ${queryType}`)
QNoHandlerFound(q) ==
    [message |-> "No handler found for query", queryType |-> q.type]

\* return result as TResult
QExecuteResult(v) == v

\* throw error, in the catch block of execute
QExecuteError(e) == e

InitQueries ==
    /\ qHandlers = <<>>
    /\ qregistered = <<>>
    /\ qry = None
    /\ qst = "none"
    /\ qhandled = <<>>
    /\ qhval = None
    /\ qres = None
    /\ qlog = <<>>

\* ---------------------------------------------------------------- Result
\* values and errors a Result is made with; undefined is the value of a
\* Result<void, E>, as in Result.success(undefined)
ResultValues == {"v1", "v2", Undefined}
ResultErrors == {"err", Undefined}

\* new Result(isSuccess, value, error)
NewResult(isSuccess, value, error) ==
    [_isSuccess |-> isSuccess, _value |-> value, _error |-> error]

\* Result.success(value)
Success(value) == NewResult(TRUE, value, Undefined)

\* Result.failure(error)
Failure(error) == NewResult(FALSE, Undefined, error)

Results == {Success(v) : v \in ResultValues} \cup {Failure(e) : e \in ResultErrors}

\* get isSuccess
IsSuccess(r) == r._isSuccess

\* get isFailure
IsFailure(r) == ~r._isSuccess

Returned(x) == [ok |-> TRUE, value |-> x]
Thrown(msg) == [ok |-> FALSE, value |-> msg]

\* get value
GetValue(r) ==
    IF ~r._isSuccess \/ r._value = Undefined
    THEN Thrown("Cannot get value of failed result")
    ELSE Returned(r._value)

\* get error
GetError(r) ==
    IF r._isSuccess \/ r._error = Undefined
    THEN Thrown("Cannot get error of successful result")
    ELSE Returned(r._error)

\* map(fn): the Result returned and the number of calls of fn
Map(r, fn) ==
    IF r._isSuccess /\ r._value # Undefined
    THEN [out |-> Success(fn[r._value]), calls |-> 1]
    ELSE [out |-> Failure(r._error), calls |-> 0]

\* flatMap(fn): the Result returned and the number of calls of fn
FlatMap(r, fn) ==
    IF r._isSuccess /\ r._value # Undefined
    THEN [out |-> fn[r._value], calls |-> 1]
    ELSE [out |-> Failure(r._error), calls |-> 0]

NotRead == [done |-> FALSE, isSuccess |-> FALSE, isFailure |-> FALSE,
            value |-> Thrown(""), error |-> Thrown("")]

InitResult ==
    /\ result = Failure(Undefined)
    /\ rop = "none"
    /\ rarg = Undefined
    /\ rsrc = Failure(Undefined)
    /\ rfn = <<>>
    /\ rcalls = 0
    /\ rread = NotRead

\* Result.success(v)
ResultSuccess(v) ==
    /\ result' = Success(v)
    /\ rop' = "success" /\ rarg' = v
    /\ rsrc' = Failure(Undefined) /\ rfn' = <<>> /\ rcalls' = 0 /\ rread' = NotRead
    /\ UNCHANGED notResult

\* Result.failure(e)
ResultFailure(e) ==
    /\ result' = Failure(e)
    /\ rop' = "failure" /\ rarg' = e
    /\ rsrc' = Failure(Undefined) /\ rfn' = <<>> /\ rcalls' = 0 /\ rread' = NotRead
    /\ UNCHANGED notResult

\* result.map(fn)
ResultMap(fn) ==
    /\ rop \in {"success", "failure"}
    /\ result' = Map(result, fn).out
    /\ rcalls' = Map(result, fn).calls
    /\ rop' = "map" /\ rsrc' = result /\ rfn' = fn /\ rread' = NotRead
    /\ UNCHANGED rarg
    /\ UNCHANGED notResult

\* result.flatMap(fn)
ResultFlatMap(fn) ==
    /\ rop \in {"success", "failure"}
    /\ result' = FlatMap(result, fn).out
    /\ rcalls' = FlatMap(result, fn).calls
    /\ rop' = "flatMap" /\ rsrc' = result /\ rfn' = fn /\ rread' = NotRead
    /\ UNCHANGED rarg
    /\ UNCHANGED notResult

\* result.isSuccess, result.isFailure, result.value and result.error are read
ResultRead ==
    /\ rop # "none"
    /\ ~rread.done
    /\ rread' = [done |-> TRUE, isSuccess |-> IsSuccess(result),
                 isFailure |-> IsFailure(result),
                 value |-> GetValue(result), error |-> GetError(result)]
    /\ UNCHANGED <<result, rop, rarg, rsrc, rfn, rcalls>>
    /\ UNCHANGED notResult

NextResult ==
    \/ \E v \in ResultValues : ResultSuccess(v)
    \/ \E e \in ResultErrors : ResultFailure(e)
    \/ \E fn \in [ResultValues -> ResultValues] : ResultMap(fn)
    \/ \E fn \in [ResultValues -> Results] : ResultFlatMap(fn)
    \/ ResultRead

\* ----------------------------------------------------- GetUsersQueryHandler
\* the users fetchUsers and applySearchFilter leave: n users, named so that
\* their names sort in the order 1..n
FilteredUsers(n) == [i \in 1..n |-> i]

\* users.slice(startIndex, endIndex): indices are 0-based, endIndex is
\* exclusive and both are clamped to the length
Slice(users, startIndex, endIndex) ==
    LET lo == IF startIndex > Len(users) THEN Len(users) ELSE startIndex
        hi == IF endIndex > Len(users) THEN Len(users) ELSE endIndex
    IN  IF hi <= lo THEN <<>> ELSE [i \in 1..(hi - lo) |-> users[lo + i]]

\* applyPagination(users, pagination)
ApplyPagination(users, page, limit) ==
    Slice(users, (page - 1) * limit, (page - 1) * limit + limit)

\* applySorting(users, pagination): without sortBy as is, else by localeCompare
\* of the sort values, ascending or (sortDirection 'desc') descending
ApplySorting(users, sort) ==
    LET n == Len(users)
        rank(u, dir) == Cardinality({i \in 1..n : IF dir = "desc" THEN users[i] > u
                                                    ELSE users[i] < u}) + 1
    IN  IF sort = "none" THEN users
        ELSE [k \in 1..n |-> CHOOSE u \in {users[i] : i \in 1..n} : rank(u, sort) = k]

\* mutant: the division is rounded down
TotalPagesFloor(totalCount, limit) == totalCount \div limit

\* Math.ceil(totalCount / query.pagination.limit)
TotalPages(totalCount, limit) ==
    IF totalCount % limit = 0 THEN totalCount \div limit ELSE totalCount \div limit + 1

\* buildPaginatedResult(users, pagination, totalCount, totalPages)
BuildPaginatedResult(users, page, limit, totalCount, totalPages) ==
    [items |-> users, totalCount |-> totalCount, page |-> page, limit |-> limit,
     totalPages |-> totalPages, hasNext |-> page < totalPages, hasPrevious |-> page > 1]

NoQuery == [page |-> 0, limit |-> 0, sort |-> "none", n |-> 0]

InitPagination ==
    /\ gq = NoQuery
    /\ gres = BuildPaginatedResult(<<>>, 0, 0, 0, 0)

\* GetUsersQueryHandler.handle(query)
GetUsersHandle(page, limit, sort, n) ==
    /\ gq = NoQuery
    /\ gq' = [page |-> page, limit |-> limit, sort |-> sort, n |-> n]
    /\ LET filteredUsers == FilteredUsers(n)
           totalCount == Len(filteredUsers)
           paginatedUsers == ApplyPagination(filteredUsers, page, limit)
           sortedUsers == ApplySorting(paginatedUsers, sort)
           totalPages == TotalPages(totalCount, limit)
       IN  gres' = BuildPaginatedResult(sortedUsers, page, limit, totalCount, totalPages)
    /\ UNCHANGED notPagination

\* the caller is done with the PaginatedResult
GetUsersReturns ==
    /\ gq # NoQuery
    /\ gq' = NoQuery
    /\ gres' = BuildPaginatedResult(<<>>, 0, 0, 0, 0)
    /\ UNCHANGED notPagination

NextPagination ==
    \/ \E page \in 1..MaxPage : \E limit \in 1..MaxLimit :
           \E sort \in {"none", "asc", "desc"} : \E n \in 0..MaxUsers :
               GetUsersHandle(page, limit, sort, n)
    \/ GetUsersReturns

\* -------------------------------------------------- user command handlers
UserIds == {<<"user", k>> : k \in 1..MaxUserCalls}
MissingUserId == <<"user", 0>>
Emails == {"ann@example.com", "ann.example.com"}
Names == {"Ann", "  Bob ", "B", "  "}
Roles == {"user", "admin", "root"}

\* email.includes('@')
IncludesAt(email) == email = "ann@example.com"

\* newName.trim()
Trim(name) ==
    CASE name = "  Bob " -> "Bob"
      [] name = "  " -> ""
      [] OTHER -> name

\* name.length
Length(name) ==
    CASE name = "" -> 0
      [] name = "B" -> 1
      [] name = "  " -> 2
      [] name = "  Bob " -> 6
      [] OTHER -> 3

\* const validRoles = ['admin', 'user', 'moderator']
ValidRoles == {"admin", "user", "moderator"}

\* no UserEntity under an id (Map.get gives undefined)
NoUser == [exists |-> FALSE, id |-> MissingUserId, email |-> "", name |-> "",
           role |-> "", isActive |-> FALSE, updatedAt |-> 0]

\* a create that leaves the new user inactive
CreateEntityInactive(id, email, name, role, now) ==
    [exists |-> TRUE, id |-> id, email |-> email, name |-> name, role |-> role,
     isActive |-> FALSE, updatedAt |-> now]

\* UserEntity.create({id, email, name, role}) at time now
CreateEntity(id, email, name, role, now) ==
    [exists |-> TRUE, id |-> id, email |-> email, name |-> name, role |-> role,
     isActive |-> TRUE, updatedAt |-> now]

\* UserEntity.validate(): the errors, joined with ', '
Validate(user) ==
    LET email == IF IncludesAt(user.email) THEN <<>> ELSE <<"Invalid email format">>
        name == IF Length(user.name) < 2
                THEN <<"Name must be at least 2 characters">> ELSE <<>>
    IN  email \o name

\* validation.errors.join(', ')
Join(errors) ==
    CASE Len(errors) = 0 -> ""
      [] Len(errors) = 1 -> errors[1]
      [] OTHER -> "Invalid email format, Name must be at least 2 characters"

\* UserEntity.updateName(newName) at time now: the entity afterwards, or the
\* DomainError thrown
UpdateName(user, newName, now) ==
    IF Trim(newName) = ""
    THEN [thrown |-> "Name cannot be empty", user |-> user]
    ELSE [thrown |-> "", user |-> [user EXCEPT !.name = Trim(newName), !.updatedAt = now]]

\* UserEntity.updateRole(newRole) at time now
UpdateRole(user, newRole, now) ==
    IF newRole \notin ValidRoles
    THEN [thrown |-> "Invalid role", user |-> user]
    ELSE [thrown |-> "", user |-> [user EXCEPT !.role = newRole, !.updatedAt = now]]

\* a deactivate that only touches updatedAt
DeactivateLeavesActive(user, now) == [user EXCEPT !.updatedAt = now]

\* UserEntity.deactivate() at time now
Deactivate(user, now) == [user EXCEPT !.isActive = FALSE, !.updatedAt = now]

CreateUserCommands ==
    [cls : {"CreateUserCommand"}, email : Emails, name : {"Ann", "B"}, role : {"user"},
     userId : {MissingUserId}, reason : {Undefined}]
\* the updates of an UpdateUserCommand: name and role, each optional
Updates ==
    {<<"  Bob ", Undefined>>, <<"B", Undefined>>, <<"  ", Undefined>>,
     <<Undefined, "admin">>, <<Undefined, "root">>, <<"  Bob ", "root">>}
UpdateUserCommands ==
    {[cls |-> "UpdateUserCommand", email |-> "", name |-> u[1], role |-> u[2],
      userId |-> <<"user", 1>>, reason |-> Undefined] : u \in Updates}
    \cup {[cls |-> "UpdateUserCommand", email |-> "", name |-> "  Bob ", role |-> Undefined,
           userId |-> MissingUserId, reason |-> Undefined]}
DeactivateUserCommands ==
    [cls : {"DeactivateUserCommand"}, email : {""}, name : {Undefined}, role : {Undefined},
     userId : {<<"user", 1>>, MissingUserId}, reason : {"left"}]
UserCommands == CreateUserCommands \cup UpdateUserCommands \cup DeactivateUserCommands

\* nothing was thrown
NothingThrown == [isError |-> FALSE, message |-> "none"]

NoCall == [cmd |-> [cls |-> "none"], pc |-> "idle", user |-> NoUser, before |-> NoUser,
           prev |-> <<>>, thrown |-> NothingThrown]

\* the Result of a handle call: Result.success(x) or Result.failure(message)
NoResultYet == [_isSuccess |-> FALSE, _value |-> Undefined, _error |-> Undefined]
Succeeded(id) == [_isSuccess |-> TRUE, _value |-> id, _error |-> Undefined]
Failed(message) == [_isSuccess |-> FALSE, _value |-> Undefined, _error |-> message]

\* error instanceof Error ? error.message : 'Unknown error'
CaughtMessage(error) == IF error.isError THEN error.message ELSE "Unknown error"

\* what the collaborators can throw: an Error with a message, or another value
Throwables == {[isError |-> TRUE, message |-> "boom"], [isError |-> FALSE, message |-> ""]}

InitUsers ==
    /\ ustore = [id \in UserIds |-> NoUser]
    /\ unext = 0
    /\ ucalls = 0
    /\ ucall = NoCall
    /\ usteps = <<>>
    /\ ures = NoResultYet
    /\ uhist = <<>>

\* handle(command) up to its first await: validateUniqueEmail(command.email)
\* in CreateUserCommandHandler, userRepository.findById(command.userId) in
\* the other two
UserHandle(command) ==
    /\ ucall.pc = "idle"
    /\ ucalls < MaxUserCalls
    /\ ucalls' = ucalls + 1
    /\ ucall' = [cmd |-> command,
                 pc |-> IF command.cls = "CreateUserCommand" THEN "validateUniqueEmail"
                        ELSE "findById",
                 user |-> NoUser,
                 before |-> IF command.userId \in UserIds THEN ustore[command.userId] ELSE NoUser,
                 prev |-> <<>>,
                 thrown |-> NothingThrown]
    /\ usteps' = <<>>
    /\ ures' = NoResultYet
    /\ UNCHANGED <<ustore, unext, uhist>>
    /\ UNCHANGED notUsers

\* the call returns result: its promise resolves
Return(r) ==
    /\ ures' = r
    /\ ucall' = [ucall EXCEPT !.pc = "done"]

\* an error thrown inside the try block reaches the handler's promise
Rethrown(error) ==
    /\ ures' = ures
    /\ ucall' = [ucall EXCEPT !.pc = "rejected", !.thrown = error]

\* catch (error): return Result.failure(message of the error)
Caught(error) ==
    /\ ures' = Failed(CaughtMessage(error))
    /\ ucall' = [ucall EXCEPT !.pc = "done", !.thrown = error]

\* throw new DomainError(message)
DomainError(message) == [isError |-> TRUE, message |-> message]

\* the event is published without saving first
CallPublishUnsaved(user) ==
    /\ ucall' = [ucall EXCEPT !.pc = "publish", !.user = user]
    /\ UNCHANGED ures

\* await this.userRepository.save(user) begins
CallSave(user) ==
    /\ ucall' = [ucall EXCEPT !.pc = "save", !.user = user]
    /\ UNCHANGED ures

\* await validateUniqueEmail settled with true / false, then the entity is
\* made and validated and save is called
CreateEmailChecked(isEmailUnique) ==
    /\ ucall.pc = "validateUniqueEmail"
    /\ IF ~isEmailUnique
       THEN /\ Return(Failed("Email already exists"))
            /\ UNCHANGED unext
       ELSE LET userId == <<"user", unext + 1>>
                user == CreateEntity(userId, ucall.cmd.email, ucall.cmd.name,
                                     ucall.cmd.role, ucalls)
            IN  /\ unext' = unext + 1
                /\ IF Validate(user) # <<>>
                   THEN Return(Failed(Join(Validate(user))))
                   ELSE CallSave(user)
    /\ usteps' = Append(usteps, [op |-> "validateUniqueEmail", id |-> MissingUserId,
                                 ok |-> isEmailUnique])
    /\ UNCHANGED <<ustore, ucalls, uhist>>
    /\ UNCHANGED notUsers

\* an awaited call threw: the catch block returns the failure
UserCatch(error) ==
    /\ ucall.pc \in {"validateUniqueEmail", "save", "publish"}
    /\ Caught(error)
    /\ usteps' = Append(usteps, [op |-> ucall.pc, id |-> ucall.user.id, ok |-> FALSE])
    /\ UNCHANGED <<ustore, unext, ucalls, uhist>>
    /\ UNCHANGED notUsers

\* await findById resolved in UpdateUserCommandHandler: the entity held by the
\* repository is changed in place through updateName / updateRole, validated,
\* and save is called
UpdateUserFound ==
    /\ ucall.pc = "findById"
    /\ ucall.cmd.cls = "UpdateUserCommand"
    /\ LET id == ucall.cmd.userId
           user == IF id \in UserIds THEN ustore[id] ELSE NoUser
           named == IF ucall.cmd.name # Undefined
                    THEN UpdateName(user, ucall.cmd.name, ucalls)
                    ELSE [thrown |-> "", user |-> user]
           roled == IF named.thrown = "" /\ ucall.cmd.role # Undefined
                    THEN UpdateRole(named.user, ucall.cmd.role, ucalls)
                    ELSE named
       IN  IF ~user.exists
           THEN /\ Return(Failed("User not found"))
                /\ UNCHANGED ustore
           ELSE /\ ustore' = [ustore EXCEPT ![id] = roled.user]
                /\ IF roled.thrown # ""
                   THEN Caught(DomainError(roled.thrown))
                   ELSE IF Validate(roled.user) # <<>>
                   THEN Return(Failed(Join(Validate(roled.user))))
                   ELSE /\ ucall' = [ucall EXCEPT !.pc = "save", !.user = roled.user,
                                                  !.prev = <<user.name, user.role>>]
                        /\ UNCHANGED ures
    /\ UNCHANGED <<unext, ucalls, usteps, uhist>>
    /\ UNCHANGED notUsers

\* await findById resolved in DeactivateUserCommandHandler
DeactivateUserFound ==
    /\ ucall.pc = "findById"
    /\ ucall.cmd.cls = "DeactivateUserCommand"
    /\ LET id == ucall.cmd.userId
           user == IF id \in UserIds THEN ustore[id] ELSE NoUser
       IN  IF ~user.exists
           THEN /\ Return(Failed("User not found"))
                /\ UNCHANGED ustore
           ELSE IF ~user.isActive
           THEN /\ Return(Failed("User is already deactivated"))
                /\ UNCHANGED ustore
           ELSE /\ ustore' = [ustore EXCEPT ![id] = Deactivate(user, ucalls)]
                /\ CallSave(Deactivate(user, ucalls))
    /\ UNCHANGED <<unext, ucalls, usteps, uhist>>
    /\ UNCHANGED notUsers

\* the event each handler makes after save
EventOf(call) ==
    [eventType |-> CASE call.cmd.cls = "CreateUserCommand" -> "UserCreated"
                     [] call.cmd.cls = "UpdateUserCommand" -> "UserUpdated"
                     [] OTHER -> "UserDeactivated",
     aggregateId |-> call.user.id]

\* await this.userRepository.save(user) resolved (InMemoryUserRepository.save:
\* this.users.set(user.id, user)); the event is made and publish is called
UserSaved ==
    /\ ucall.pc = "save"
    /\ ustore' = [ustore EXCEPT ![ucall.user.id] = ucall.user]
    /\ usteps' = Append(usteps, [op |-> "save", id |-> ucall.user.id, ok |-> TRUE])
    /\ ucall' = [ucall EXCEPT !.pc = "publish"]
    /\ UNCHANGED <<unext, ucalls, ures, uhist>>
    /\ UNCHANGED notUsers

\* await this.eventPublisher.publish(event) resolved: return Result.success
UserPublished ==
    /\ ucall.pc = "publish"
    /\ usteps' = Append(usteps, [op |-> "publish", id |-> EventOf(ucall).aggregateId,
                                 ok |-> TRUE])
    /\ Return(IF ucall.cmd.cls = "DeactivateUserCommand" THEN Succeeded(Undefined)
              ELSE Succeeded(ucall.user.id))
    /\ UNCHANGED <<ustore, unext, ucalls, uhist>>
    /\ UNCHANGED notUsers

\* the caller has the Result; the next command can be issued
UserReturns ==
    /\ ucall.pc = "done"
    /\ uhist' = Append(uhist, [cmd |-> ucall.cmd, result |-> ures, steps |-> usteps,
                               event |-> EventOf(ucall).eventType])
    /\ ucall' = NoCall
    /\ usteps' = <<>>
    /\ ures' = NoResultYet
    /\ UNCHANGED <<ustore, unext, ucalls>>
    /\ UNCHANGED notUsers

NextUsers ==
    \/ \E command \in UserCommands : UserHandle(command)
    \/ \E isEmailUnique \in BOOLEAN : CreateEmailChecked(isEmailUnique)
    \/ \E error \in Throwables : UserCatch(error)
    \/ UpdateUserFound
    \/ DeactivateUserFound
    \/ UserSaved
    \/ UserPublished
    \/ UserReturns

\* -------------------------------------------------- command construction
CommandClasses == {"CreateUserCommand", "UpdateUserCommand", "DeactivateUserCommand"}

\* the text before the timestamp in each class's commandId
Prefix(cls) ==
    CASE cls = "CreateUserCommand" -> "create-user-"
      [] cls = "UpdateUserCommand" -> "update-user-"
      [] OTHER -> "deactivate-user-"

\* this.commandId = `<prefix>${Date.now()}`
NewCommandId(cls, now) == <<Prefix(cls), now>>

InitCommandIds ==
    /\ clock = 0
    /\ constructed = <<>>

\* new CreateUserCommand(..) / new UpdateUserCommand(..) / new DeactivateUserCommand(..)
Construct(cls) ==
    /\ Len(constructed) < MaxCommandObjects
    /\ constructed' = Append(constructed, [cls |-> cls, commandId |-> NewCommandId(cls, clock)])
    /\ UNCHANGED clock
    /\ UNCHANGED notCommandIds

\* a millisecond passes
Tick ==
    /\ clock < MaxClock
    /\ clock' = clock + 1
    /\ UNCHANGED constructed
    /\ UNCHANGED notCommandIds

NextCommandIds ==
    \/ \E cls \in CommandClasses : Construct(cls)
    \/ Tick

\* -------------------------------------------------- usePagination
\* Math.ceil(n / d) for n >= 0, d >= 1
Ceil(n, d) == (n + d - 1) \div d

\* Math.max / Math.min of two numbers
MathMax(a, b) == IF a >= b THEN a ELSE b
MathMin(a, b) == IF a <= b THEN a ELSE b

\* useState({currentPage: initialPage, pageSize: initialPageSize, totalItems: 0,
\* totalPages: 0}) with the defaults initialPage = 1, initialPageSize = 10
InitHook ==
    pstate = [currentPage |-> 1, pageSize |-> 10, totalItems |-> 0, totalPages |-> 0]

\* setTotalItems(total)
SetTotalItems(total) ==
    /\ pstate' = [pstate EXCEPT !.totalItems = total,
                                !.totalPages = Ceil(total, pstate.pageSize)]
    /\ UNCHANGED notHook

\* goToPage(page)
GoToPage(page) ==
    /\ pstate' = [pstate EXCEPT
                    !.currentPage = MathMax(1, MathMin(page, pstate.totalPages))]
    /\ UNCHANGED notHook

\* nextPage()
NextPage ==
    /\ pstate' = [pstate EXCEPT
                    !.currentPage = MathMin(pstate.currentPage + 1, pstate.totalPages)]
    /\ UNCHANGED notHook

\* previousPage()
PreviousPage ==
    /\ pstate' = [pstate EXCEPT !.currentPage = MathMax(pstate.currentPage - 1, 1)]
    /\ UNCHANGED notHook

\* setPageSize(size)
SetPageSize(size) ==
    /\ pstate' = [pstate EXCEPT !.pageSize = size,
                                !.currentPage = 1,
                                !.totalPages = Ceil(pstate.totalItems, size)]
    /\ UNCHANGED notHook

NextHook ==
    \/ \E total \in 0..MaxTotalItems : SetTotalItems(total)
    \/ \E page \in -1..MaxGoTo : GoToPage(page)
    \/ NextPage
    \/ PreviousPage
    \/ \E size \in 1..MaxPageSize : SetPageSize(size)

\* -------------------------------------------------- useAsyncState
Promises == 1..MaxPromises
Null == "null"

\* useState({data: initialData, isLoading: false, error: null})
InitAsync ==
    /\ astate = [data |-> Null, isLoading |-> FALSE, error |-> Null]
    /\ executed = [p \in Promises |-> "none"]

\* execute(promise) up to `await promise`
Execute(p) ==
    /\ executed[p] = "none"
    /\ \A q \in 1..(p - 1) : executed[q] # "none"
    /\ executed' = [executed EXCEPT ![p] = "pending"]
    /\ astate' = [astate EXCEPT !.isLoading = TRUE, !.error = Null]
    /\ UNCHANGED notAsync

\* the promise fulfils: setState({data, isLoading: false, error: null})
Fulfilled(p) ==
    /\ executed[p] = "pending"
    /\ executed' = [executed EXCEPT ![p] = "fulfilled"]
    /\ astate' = [data |-> <<"data", p>>, isLoading |-> FALSE, error |-> Null]
    /\ UNCHANGED notAsync

\* the promise rejects: setState(prev => ({...prev, isLoading: false, error}))
Rejected(p) ==
    /\ executed[p] = "pending"
    /\ executed' = [executed EXCEPT ![p] = "rejected"]
    /\ astate' = [astate EXCEPT !.isLoading = FALSE, !.error = <<"error", p>>]
    /\ UNCHANGED notAsync

NextAsync ==
    \/ \E p \in Promises : Execute(p)
    \/ \E p \in Promises : Fulfilled(p)
    \/ \E p \in Promises : Rejected(p)

\* ---------------------------------------------------------------- Init
\* every component as constructed
Init ==
    /\ InitEvents /\ InitCommands /\ InitContainer /\ InitMiddleware /\ InitQueries
    /\ InitResult
    /\ InitPagination
    /\ InitUsers
    /\ InitCommandIds
    /\ InitHook
    /\ InitAsync

SpecResult == Init /\ [][NextResult]_vars

SpecPagination == Init /\ [][NextPagination]_vars

SpecUsers == Init /\ [][NextUsers]_vars

SpecCommandIds == Init /\ [][NextCommandIds]_vars

SpecHook == Init /\ [][NextHook]_vars

SpecAsync == Init /\ [][NextAsync]_vars

\* ---------------------------------------------- SimpleCommandBus actions
\* SimpleCommandBus.register(handler)
CmdRegister(cls, claims) ==
    /\ cst = "none"
    /\ Len(registered) < MaxRegistrations
    /\ LET h == [id |-> Len(registered) + 1, cls |-> cls, claims |-> claims]
       IN  /\ cmdHandlers' = MapSet(cmdHandlers, h.cls, h)
           /\ registered' = Append(registered, h)
    /\ UNCHANGED <<cmd, cst, handled, hval, cres, clog>>
    /\ UNCHANGED notCommands

\* SimpleCommandBus.clear()
CmdClear ==
    /\ cst = "none"
    /\ registered # <<>>
    /\ cmdHandlers' = <<>>
    /\ registered' = <<>>
    /\ UNCHANGED <<cmd, cst, handled, hval, cres, clog>>
    /\ UNCHANGED notCommands

\* SimpleCommandBus.execute(command) up to await handler.handle(command), or
\* to the throw when no handler is found
DoCmdExecute(c) ==
    /\ cst = "none"
    /\ cmd' = c
    /\ LET h == FindHandler(cmdHandlers, c)
           start == LogEntry("info", "Executing command",
                             [commandType |-> c.type, commandId |-> c.commandId])
       IN  IF h = <<>>
           THEN /\ cst' = "rejected"
                /\ cres' = NoHandlerFound(c)
                /\ handled' = <<>>
                /\ clog' = <<start, LogEntry("error", "Command handler not found",
                                             [commandType |-> c.type])>>
           ELSE /\ cst' = "handling"
                /\ cres' = None
                /\ handled' = h
                /\ clog' = <<start>>
    /\ hval' = None
    /\ UNCHANGED <<cmdHandlers, registered >>

CmdExecute(c) == DoCmdExecute(c) /\ UNCHANGED notCommands

\* handler.handle(command) resolved with v: the success entry, return result
CmdHandleResolves(v) ==
    /\ cst = "handling"
    /\ hval' = v
    /\ cres' = ExecuteResult(v)
    /\ cst' = "resolved"
    /\ clog' = Append(clog, LogEntry("info", "Command executed successfully",
                        [commandType |-> cmd.type, commandId |-> cmd.commandId]))
    /\ UNCHANGED <<cmdHandlers, registered, cmd, handled >>
    /\ UNCHANGED notCommands

\* handler.handle(command) threw or rejected with e: the failure entry, throw error
CmdHandleRejects(e) ==
    /\ cst = "handling"
    /\ hval' = e
    /\ cres' = ExecuteError(e)
    /\ cst' = "rejected"
    /\ clog' = Append(clog, LogEntry("error", "Command execution failed",
                        [commandType |-> cmd.type, commandId |-> cmd.commandId]))
    /\ UNCHANGED <<cmdHandlers, registered, cmd, handled >>
    /\ UNCHANGED notCommands

\* the caller is done with the settled execute call
DoCmdReturns ==
    /\ cst \in {"resolved", "rejected"}
    /\ cmd' = None /\ cst' = "none" /\ handled' = <<>>
    /\ hval' = None /\ cres' = None /\ clog' = <<>>
    /\ UNCHANGED <<cmdHandlers, registered >>

CmdReturns == DoCmdReturns /\ UNCHANGED notCommands

NextCommands ==
    \/ \E cls \in HandlerClasses : \E claims \in SUBSET CommandTypes : CmdRegister(cls, claims)
    \/ CmdClear
    \/ \E c \in Commands : CmdExecute(c)
    \/ \E v \in Values : CmdHandleResolves(v)
    \/ \E e \in Errors : CmdHandleRejects(e)
    \/ CmdReturns

SpecCommands == Init /\ [][NextCommands]_vars

\* ----------------------------------------- MiddlewareCommandBus actions
\* MiddlewareCommandBus.addMiddleware(middleware)
MwAdd(middleware) ==
    /\ mst = "none"
    /\ Len(middlewares) < MaxMiddlewares
    /\ middlewares' = Append(middlewares, middleware)
    /\ UNCHANGED <<mcmd, mst, mdepth, mout, mtrace, mlog>>
    /\ UNCHANGED <<cmdVars, notMiddleware>>

\* MiddlewareCommandBus.register(handler): this.innerBus.register(handler)
MwRegister(cls, claims) ==
    /\ mst = "none"
    /\ Len(registered) < MaxMwHandlers
    /\ CmdRegister(cls, claims)

\* MiddlewareCommandBus.execute(command): the pipeline is built and called; it
\* runs without suspension through the middlewares, each calling next, until
\* a ValidationCommandMiddleware throws or innerBus.execute reaches its await
MwExecute(c) ==
    /\ mst = "none" /\ cst = "none"
    /\ mcmd' = c
    /\ LET order == Pipeline(middlewares)
           v == ThrowingLayer(middlewares, c)
           entered == IF v = 0 THEN Len(order) ELSE v
           enters == [k \in 1..entered |-> <<"enter", order[k], NoOutcome>>]
       IN  /\ mlog' = EntryLog(middlewares, c, entered)
           /\ IF v > 0
              THEN /\ mout' = Outcome(FALSE, InvalidCommand)
                   /\ mtrace' = Append(enters, <<"exit", order[v], mout'>>)
                   /\ mdepth' = v - 1
                   /\ mst' = "unwinding"
                   /\ UNCHANGED cmdVars
              ELSE /\ mout' = NoOutcome
                   /\ mtrace' = Append(enters, <<"inner", 0, NoOutcome>>)
                   /\ mdepth' = entered
                   /\ mst' = "inner"
                   /\ DoCmdExecute(c)
    /\ UNCHANGED middlewares
    /\ UNCHANGED notMiddleware

\* the promise of innerBus.execute(command) settles
MwInnerSettled ==
    /\ mst = "inner"
    /\ cst \in {"resolved", "rejected"}
    /\ mout' = Outcome(cst = "resolved", cres)
    /\ mtrace' = Append(mtrace, <<"innerDone", 0, mout'>>)
    /\ mst' = "unwinding"
    /\ UNCHANGED <<middlewares, mcmd, mdepth, mlog>>
    /\ UNCHANGED <<cmdVars, notMiddleware>>

\* await next() settles in the innermost layer that has not completed:
\* LoggingCommandMiddleware logs and returns the result or rethrows the error,
\* ValidationCommandMiddleware returns what next gave
MwLayerReturns ==
    /\ mst = "unwinding"
    /\ mdepth > 0
    /\ LET i == Pipeline(middlewares)[mdepth]
           meta == [commandType |-> mcmd.type, commandId |-> mcmd.commandId]
       IN  /\ mtrace' = Append(mtrace, <<"exit", i, mout>>)
           /\ mlog' = IF middlewares[i] = "LoggingCommandMiddleware"
                      THEN Append(mlog,
                               IF mout.ok
                               THEN LogEntry("info", "[MIDDLEWARE] Command completed", meta)
                               ELSE LogEntry("error", "[MIDDLEWARE] Command failed", meta))
                      ELSE mlog
    /\ mdepth' = mdepth - 1
    /\ UNCHANGED <<middlewares, mcmd, mst, mout>>
    /\ UNCHANGED <<cmdVars, notMiddleware>>

\* return await pipeline(): the outermost layer has settled
MwSettle ==
    /\ mst = "unwinding"
    /\ mdepth = 0
    /\ mst' = IF mout.ok THEN "resolved" ELSE "rejected"
    /\ UNCHANGED <<middlewares, mcmd, mdepth, mout, mtrace, mlog>>
    /\ UNCHANGED <<cmdVars, notMiddleware>>

\* the caller is done with the settled MiddlewareCommandBus.execute call
MwReturns ==
    /\ mst \in {"resolved", "rejected"}
    /\ mcmd' = None /\ mst' = "none" /\ mdepth' = 0
    /\ mout' = NoOutcome /\ mtrace' = <<>> /\ mlog' = <<>>
    /\ IF cst = "none" THEN UNCHANGED cmdVars ELSE DoCmdReturns
    /\ UNCHANGED middlewares
    /\ UNCHANGED notMiddleware

NextMiddleware ==
    \/ \E middleware \in MiddlewareKinds : MwAdd(middleware)
    \/ \E cls \in HandlerClasses : \E claims \in SUBSET CommandTypes : MwRegister(cls, claims)
    \/ \E c \in MwCommands : MwExecute(c)
    \/ \E v \in Values : CmdHandleResolves(v)
    \/ \E e \in Errors : CmdHandleRejects(e)
    \/ MwInnerSettled
    \/ MwLayerReturns
    \/ MwSettle
    \/ MwReturns

SpecMiddleware == Init /\ [][NextMiddleware]_vars

\* ------------------------------------------------ SimpleQueryBus actions
\* SimpleQueryBus.register(handler)
QryRegister(cls, claims) ==
    /\ qst = "none"
    /\ Len(qregistered) < MaxRegistrations
    /\ LET h == [id |-> Len(qregistered) + 1, cls |-> cls, claims |-> claims]
       IN  /\ qHandlers' = MapSet(qHandlers, h.cls, h)
           /\ qregistered' = Append(qregistered, h)
    /\ UNCHANGED <<qry, qst, qhandled, qhval, qres, qlog>>
    /\ UNCHANGED notQueries

\* SimpleQueryBus.clear()
QryClear ==
    /\ qst = "none"
    /\ qregistered # <<>>
    /\ qHandlers' = <<>>
    /\ qregistered' = <<>>
    /\ UNCHANGED <<qry, qst, qhandled, qhval, qres, qlog>>
    /\ UNCHANGED notQueries

\* SimpleQueryBus.execute(query) up to await handler.handle(query), or to the
\* throw when no handler is found
QryExecute(q) ==
    /\ qst = "none"
    /\ qry' = q
    /\ LET h == QFindHandler(qHandlers, q)
           start == LogEntry("debug", "Executing query",
                             [queryType |-> q.type, queryId |-> q.queryId])
       IN  IF h = <<>>
           THEN /\ qst' = "rejected"
                /\ qres' = QNoHandlerFound(q)
                /\ qhandled' = <<>>
                /\ qlog' = <<start, LogEntry("error", "Query handler not found",
                                             [queryType |-> q.type])>>
           ELSE /\ qst' = "handling"
                /\ qres' = None
                /\ qhandled' = h
                /\ qlog' = <<start>>
    /\ qhval' = None
    /\ UNCHANGED <<qHandlers, qregistered>>
    /\ UNCHANGED notQueries

\* handler.handle(query) resolved with v: the success entry, return result
QryHandleResolves(v) ==
    /\ qst = "handling"
    /\ qhval' = v
    /\ qres' = QExecuteResult(v)
    /\ qst' = "resolved"
    /\ qlog' = Append(qlog, LogEntry("debug", "Query executed successfully",
                        [queryType |-> qry.type, queryId |-> qry.queryId]))
    /\ UNCHANGED <<qHandlers, qregistered, qry, qhandled>>
    /\ UNCHANGED notQueries

\* handler.handle(query) threw or rejected with e: the failure entry, throw error
QryHandleRejects(e) ==
    /\ qst = "handling"
    /\ qhval' = e
    /\ qres' = QExecuteError(e)
    /\ qst' = "rejected"
    /\ qlog' = Append(qlog, LogEntry("error", "Query execution failed",
                        [queryType |-> qry.type, queryId |-> qry.queryId]))
    /\ UNCHANGED <<qHandlers, qregistered, qry, qhandled>>
    /\ UNCHANGED notQueries

\* the caller is done with the settled execute call
QryReturns ==
    /\ qst \in {"resolved", "rejected"}
    /\ qry' = None /\ qst' = "none" /\ qhandled' = <<>>
    /\ qhval' = None /\ qres' = None /\ qlog' = <<>>
    /\ UNCHANGED <<qHandlers, qregistered>>
    /\ UNCHANGED notQueries

\* ------------------------------- a command bus and a query bus side by side
\* the query bus is given the calls the command bus is given, one call behind:
\* the query, handler class and claimed types that stand for the command's
QueryTypeOf(t) == IF t = "CreateUserCommand" THEN "GetUserByIdQuery" ELSE "GetUsersQuery"
QueryIdOf(i) == IF i = "create-user-1" THEN "get-user-1" ELSE "get-users-2"
QueryOf(c) == [type |-> QueryTypeOf(c.type), queryId |-> QueryIdOf(c.commandId)]
QueryClassOf(cls) ==
    IF cls = "CreateUserCommandHandler" THEN "GetUserByIdQueryHandler"
    ELSE "GetUsersQueryHandler"
QueryClaimsOf(claims) == {QueryTypeOf(t) : t \in claims}

\* both buses have been given the same register / clear calls
InStep == Len(qregistered) = Len(registered)

PairCmdRegister(cls, claims) ==
    /\ InStep /\ qst = "none"
    /\ Len(registered) < MaxPairHandlers
    /\ CmdRegister(cls, claims)

PairQryRegister ==
    /\ Len(qregistered) < Len(registered)
    /\ LET h == registered[Len(qregistered) + 1]
       IN  QryRegister(QueryClassOf(h.cls), QueryClaimsOf(h.claims))

PairCmdClear == InStep /\ qst = "none" /\ CmdClear

PairQryClear == registered = <<>> /\ QryClear

PairCmdExecute(c) == InStep /\ qst = "none" /\ CmdExecute(c)

PairQryExecute == InStep /\ cst # "none" /\ QryExecute(QueryOf(cmd))

\* the handlers behave alike: where both buses invoked the same handler, the
\* query handler settles as the command handler did
SameBehaviour(v) ==
    /\ cst \in {"resolved", "rejected"}
    /\ (handled # <<>> /\ qhandled # <<>> /\ handled[1].id = qhandled[1].id) => hval = v

PairQryHandleResolves(v) == SameBehaviour(v) /\ QryHandleResolves(v)

PairQryHandleRejects(e) == SameBehaviour(e) /\ QryHandleRejects(e)

PairCmdReturns == qst \in {"resolved", "rejected"} /\ CmdReturns

PairQryReturns == cst = "none" /\ QryReturns

NextBothBuses ==
    \/ \E cls \in HandlerClasses : \E claims \in SUBSET CommandTypes :
           PairCmdRegister(cls, claims)
    \/ PairQryRegister
    \/ PairCmdClear
    \/ PairQryClear
    \/ \E c \in Commands : PairCmdExecute(c)
    \/ PairQryExecute
    \/ \E v \in Values : CmdHandleResolves(v)
    \/ \E e \in Errors : CmdHandleRejects(e)
    \/ \E v \in Values : PairQryHandleResolves(v)
    \/ \E e \in Errors : PairQryHandleRejects(e)
    \/ PairCmdReturns
    \/ PairQryReturns

SpecBothBuses == Init /\ [][NextBothBuses]_vars

\* ------------------------------------------------------- specifications
NextContainer ==
    \/ \E id \in ServiceIds : \E type \in BindingTypes : Bind(id, type)
    \/ \E id \in ServiceIds : Get(id)
    \/ ContainerClear

SpecContainer == Init /\ [][NextContainer]_vars

MaxRetriesChoices == 0..DefaultMaxRetries

\* A batch is checked on at most two events: their publications run
\* concurrently, so what is to be seen happens between two of them.
BatchLists == UNION {[1..n -> EventTypes] : n \in {0, 1, 2}}

\* the base EventBus
NextBus ==
    \/ \E t \in EventTypes : Register(t, MaxHandlers)
    \/ Clear
    \/ \E t \in EventTypes : \E out \in [1..MaxHandlers -> Outcomes] : Publish(t, out)
    \/ \E evs \in EventLists : \E out \in [1..MaxHandlers -> Outcomes] : PublishAll(evs, out)
    \/ \E out \in [1..MaxHandlers -> Outcomes] : PublishAllNext(out)
    \/ PublishAllDone
    \/ PublishAllFail
    \/ \E i \in EvIdx : \E k \in 1..MaxHandlers : \E ok \in BOOLEAN : HandlerSettle(i, k, ok)
    \/ \E i \in EvIdx : PublishComplete(i)
    \/ CallReturns

SpecBus == Init /\ [][NextBus]_vars

\* RetryableEventBus.publish over the base EventBus
NextRetry ==
    \/ \E t \in EventTypes : Register(t, MaxHandlers)
    \/ Clear
    \/ \E m \in MaxRetriesChoices : NewRetryableEventBus(m)
    \/ \E t \in EventTypes : \E out \in [1..MaxHandlers -> Outcomes] : RetryPublish(t, out)
    \/ \E k \in 1..MaxHandlers : \E ok \in BOOLEAN : HandlerSettle(1, k, ok)
    \/ PublishComplete(1)
    \/ RetryOnResolve(1)
    \/ RetryOnReject(1)
    \/ \E out \in [1..MaxHandlers -> Outcomes] : RetryDelayElapsed(1, out)
    \/ CallReturns

SpecRetry == Init /\ [][NextRetry]_vars

\* RetryableEventBus.publishAll over the base EventBus
NextBatch ==
    \/ \E t \in EventTypes : Register(t, MaxBatchHandlers)
    \/ Clear
    \/ \E m \in MaxRetriesChoices : NewRetryableEventBus(m)
    \/ \E evs \in BatchLists : RetryPublishAll(evs)
    \/ \E out \in [1..MaxBatchHandlers -> Outcomes] : RetryMapNext(out)
    \/ \E i \in {1, 2} : \E k \in 1..MaxBatchHandlers : \E ok \in BOOLEAN : HandlerSettle(i, k, ok)
    \/ \E i \in {1, 2} : PublishComplete(i)
    \/ \E i \in {1, 2} : RetryOnResolve(i)
    \/ \E i \in {1, 2} : RetryOnReject(i)
    \/ \E i \in {1, 2} : \E out \in [1..MaxBatchHandlers -> Outcomes] : RetryDelayElapsed(i, out)
    \/ RetryPublishAllDone
    \/ RetryPublishAllFail
    \/ CallReturns

SpecBatch == Init /\ [][NextBatch]_vars

\* ---------------------------------------------------------------- claims
Published == {i \in 1..Len(events) : pst[i] # "idle"}

\* the locals of EventBus.publish for event i are gone: its caller went on
Dropped(i) == kind = "publishAll" /\ (i < idx \/ allSt = "resolved")

\* C1: EventBus.publish of an event whose N registered handlers all accept it
\* invokes handle on all N of them, whichever of them fail, and does not
\* reject: it is running or resolved, and resolved only once all have settled.
C1_HandlerIsolation ==
    \A i \in Published :
        (handlers[events[i]] > 0 /\ accepted[i] = HandlersFor(events[i])) =>
            /\ pst[i] \in {"running", "resolved"}
            /\ Len(promises[i]) = handlers[events[i]]
            /\ \A k \in 1..Len(promises[i]) : promises[i][k].h = HandlersFor(events[i])[k]
            /\ pst[i] = "resolved" => Pending(i) = {}

\* publish resolved although the first of two accepting handlers failed,
\* and the second one was invoked and succeeded
C1_Witness ==
    /\ kind = "publish" /\ pst[1] = "resolved"
    /\ Len(accepted[1]) = 2 /\ Len(promises[1]) = 2
    /\ promises[1][1].st = "failed" /\ promises[1][2].st = "ok"

\* C2: EventBus.publishAll publishes in list order, and a handler of a later
\* event is invoked only after the publish of every earlier event has
\* resolved with all of its handlers settled.
C2_Sequential ==
    kind = "publishAll" =>
        \A i, j \in 1..Len(events) :
            (i < j /\ pst[j] # "idle") => (pst[i] = "resolved" /\ Pending(i) = {})

\* the second event's handler is in flight after the first event's handlers ran
C2_Witness ==
    /\ kind = "publishAll" /\ Len(events) = 2
    /\ handleCalls[1] > 0 /\ pst[1] = "resolved"
    /\ pst[2] = "running" /\ Pending(2) # {}

\* C9: EventBus.publish of an event with no handler registered for its type
\* resolves, logs the warning and invokes no handler, of any type.
C9_NoHandlers ==
    \A i \in Published :
        handlers[events[i]] = 0 =>
            /\ pst[i] = "resolved"
            /\ handleCalls[i] = 0 /\ promises[i] = <<>>
            /\ Dropped(i) \/ elog[i] = <<"info:publishing", "warn:no-handlers">>

\* an event without handlers was published while the other type has handlers
C9_Witness ==
    /\ kind = "publish" /\ pst[1] = "resolved"
    /\ handlers[events[1]] = 0
    /\ \E t \in EventTypes : handlers[t] > 0

C4_NoHandlerFound ==
    (cst # "none" /\ \A i \in 1..Len(registered) : ~CanHandle(registered[i], cmd)) =>
        /\ cst = "rejected"
        /\ cres = [message |-> "No handler found for command", commandType |-> cmd.type]
        /\ handled = <<>>

\* handlers are registered, none claims the command, and execute rejected
C4_Witness ==
    /\ cst = "rejected" /\ handled = <<>>
    /\ Len(cmdHandlers) = 2
    /\ Matching(cmdHandlers, cmd) = {}

\* C5: when register(H1) and then register(H2) were called and both claim the
\* command, execute invokes H1's handle only and returns H1's result.
C5_FirstRegisteredWins ==
    (/\ cst # "none"
     /\ Len(registered) = 2
     /\ CanHandle(registered[1], cmd) /\ CanHandle(registered[2], cmd)) =>
        /\ handled = <<registered[1]>>
        /\ cst = "resolved" => cres = hval

\* C6: RetryableEventBus.publish resolves exactly when a delegate publish
\* resolved: after k-1 failed invocations and one successful one, k invocations
\* in all with k <= maxRetries, and none after it.
C6_RetryUntilSuccess ==
    rst[1] = "resolved" =>
        /\ pst[1] = "resolved"
        /\ publishCalls[1] = failedCalls[1] + 1
        /\ publishCalls[1] = attempt[1]
        /\ publishCalls[1] <= maxRetries

\* two failures, then success on the third attempt: three invocations
C6_Witness ==
    /\ kind = "retryPublish" /\ rst[1] = "resolved"
    /\ maxRetries = 3 /\ failedCalls[1] = 2 /\ publishCalls[1] = 3

\* C7: RetryableEventBus.publish rejects only after maxRetries delegate
\* invocations that all failed; its error reports maxRetries and carries the
\* error of the last invocation.
C7_Exhausted ==
    rst[1] = "rejected" =>
        /\ publishCalls[1] = maxRetries
        /\ failedCalls[1] = maxRetries
        /\ retryErr[1].attempts = maxRetries
        /\ maxRetries >= 1 =>
              (retryErr[1].cause = pubErr[1] /\ pubErr[1][3] = maxRetries)

\* three attempts failed and publish rejected
C7_Witness ==
    /\ kind = "retryPublish" /\ rst[1] = "rejected"
    /\ maxRetries = 3 /\ failedCalls[1] = 3

\* C8: RetryableEventBus.publishAll starts the publication of every event
\* before anything of the batch is awaited: whenever one event's publish has
\* resolved, is in its retry delay, or has had a handler settle after
\* suspending, every event of the batch has already been started.
C8_BatchStartsAllFirst ==
    kind = "retryPublishAll" =>
        \A i, j \in 1..Len(events) :
            (\/ rst[i] \in {"resolved", "delay"}
             \/ \E k \in 1..Len(promises[i]) : promises[i][k].st = "ok")
            => rst[j] # "idle"

\* a handler of the second event has been invoked while a handler of the
\* first event has not settled
C8_Witness ==
    /\ kind = "retryPublishAll" /\ Len(events) = 2
    /\ pst[1] = "running" /\ Pending(1) # {}
    /\ pst[2] = "running" /\ Len(promises[2]) > 0

\* C10: get follows the strategy of the identifier's binding: with a toValue
\* or toSingleton binding the instance is produced at most once and every get
\* returns the one cached instance; with a toFactory or to(ctor) binding
\* every get invokes the factory / constructor and nothing is cached.
C10_GetFollowsBinding ==
    \A id \in ServiceIds :
        bindings[id] # Unbound =>
            IF bindings[id].isSingleton
            THEN /\ made[id] <= 1
                 /\ Cardinality(results[id]) <= 1
                 /\ gets[id] > 0 => results[id] = {instances[id][1]}
            ELSE /\ made[id] = gets[id]
                 /\ instances[id] = <<>>

\* C11: once an identifier is bound again, every later get of it resolves by
\* the most recent binding: what get returns since then is the value of that
\* binding, or an instance its factory / constructor made.
C11_RebindingOverwrites ==
    \A id \in ServiceIds :
        bindings[id] # Unbound =>
            \A r \in results[id] : r \in {Resolve(bindings[id], n) : n \in 1..MaxGets}

\* C12: get of an identifier that has no binding throws the error that names
\* the identifier, and leaves bindings and the instance cache as they were.
C12_UnboundGetFails ==
    [][\A id \in ServiceIds :
          (bindings[id] = Unbound /\ Get(id)) =>
              /\ lastGet' = [id |-> id, ok |-> FALSE,
                             value |-> <<"No binding found for identifier", id>>]
              /\ bindings' = bindings
              /\ instances' = instances]_vars

C12_Witness ==
    \E id, other \in ServiceIds :
        /\ lastGet.id = id /\ ~lastGet.ok /\ bindings[id] = Unbound
        /\ bindings[other] # Unbound /\ instances[other] # <<>>

\* C13: in a MiddlewareCommandBus.execute call the middlewares are entered in
\* registration order (m1 first, each next entering the following one), the
\* inner bus is called from the last one and at most once, and the layers
\* complete in the reverse order, m1 last.
C13_FirstRegisteredOutermost ==
    mst # "none" =>
        LET T == mtrace
            n == Len(middlewares)
            at(e) == {p \in 1..Len(T) : T[p][1] = e}
        IN  /\ \A p \in at("enter") : T[p][2] = p
            /\ \A p \in at("inner") : p = n + 1
            /\ Cardinality(at("inner")) <= 1
            /\ \A p \in at("exit") :
                   /\ \E q \in at("enter") : q < p /\ T[q][2] = T[p][2]
                   /\ \A q \in at("enter") \cup at("inner") \cup at("innerDone") : q < p
                   /\ \A q \in at("exit") : q < p => T[q][2] > T[p][2]
            /\ mst \in {"resolved", "rejected"} =>
                   /\ Cardinality(at("exit")) = Cardinality(at("enter"))
                   /\ n > 0 => T[Len(T)] = <<"exit", 1, mout>>

C13_Witness ==
    /\ mst = "resolved"
    /\ Len(middlewares) = 2
    /\ Len(handled) = 1
    /\ Len(mtrace) = 6

\* C14: a ValidationCommandMiddleware entered with a command whose commandId or
\* timestamp is missing throws the invalid-command error at once: no later
\* middleware, inner bus or handler is invoked. Entered with both present, it
\* calls next once and completes with what next completed with.
C14_ValidationFailsFast ==
    mst # "none" =>
        LET T == mtrace
            missing == mcmd.commandId \in {Undefined, ""} \/ mcmd.timestamp = Undefined
        IN  \A p \in 1..Len(T) :
                (T[p][1] = "enter" /\ middlewares[T[p][2]] = "ValidationCommandMiddleware") =>
                    IF missing
                    THEN /\ Len(T) > p
                         /\ \A q \in p + 1..Len(T) : T[q][1] = "exit"
                         /\ T[p + 1][1] = "exit" /\ T[p + 1][2] = T[p][2]
                         /\ ~T[p + 1][3].ok
                         /\ T[p + 1][3].value = InvalidCommand
                         /\ cst = "none" /\ handled = <<>>
                    ELSE /\ Len(T) > p
                         /\ T[p + 1][1] \in {"enter", "inner"}
                         /\ \A q \in 1..Len(T) :
                                (T[q][1] = "exit" /\ T[q][2] = T[p][2]) =>
                                    /\ T[q - 1][1] \in {"exit", "innerDone"}
                                    /\ T[q][3] = T[q - 1][3]

C14_Witness ==
    /\ mst = "rejected"
    /\ Len(middlewares) = 2 /\ middlewares[1] = "ValidationCommandMiddleware"
    /\ mcmd.commandId = "create-user-1" /\ mcmd.timestamp = Undefined
    /\ registered # <<>> /\ CanHandle(registered[1], mcmd)
    /\ handled = <<>>

\* C15: when the handler the bus selected rejects with error E, execute logs
\* the failure and rejects with E itself, on the command bus and on the
\* query bus alike.
C15_HandlerErrorUnchanged ==
    /\ (cst = "rejected" /\ handled # <<>>) =>
           /\ hval \in Errors
           /\ cres = hval
           /\ clog[Len(clog)].level = "error"
           /\ clog[Len(clog)].msg = "Command execution failed"
    /\ (qst = "rejected" /\ qhandled # <<>>) =>
           /\ qhval \in Errors
           /\ qres = qhval
           /\ qlog[Len(qlog)].level = "error"
           /\ qlog[Len(qlog)].msg = "Query execution failed"

C15_Witness ==
    /\ cst = "rejected" /\ handled # <<>> /\ cres = "e2"
    /\ qst = "rejected" /\ qhandled # <<>> /\ qres = "e2"

\* C17: given the same register, clear and execute calls, with handlers that
\* behave alike, the query bus holds the same handlers in the same order,
\* selects the same handler and settles as the command bus does (the same
\* result, the same handler error, or the no-handler error naming the type);
\* its log has the same entries, at debug where the command bus logs at info.
C17_QueryBusAsCommandBus ==
    /\ InStep =>
           /\ Len(qHandlers) = Len(cmdHandlers)
           /\ \A k \in 1..Len(cmdHandlers) :
                  /\ qHandlers[k].key = QueryClassOf(cmdHandlers[k].key)
                  /\ qHandlers[k].h.id = cmdHandlers[k].h.id
    /\ (cst # "none" /\ qst # "none") =>
           /\ Len(qhandled) = Len(handled)
           /\ handled # <<>> => qhandled[1].id = handled[1].id
    /\ (cst \in {"resolved", "rejected"} /\ qst \in {"resolved", "rejected"}) =>
           /\ qst = cst
           /\ IF handled = <<>>
              THEN /\ cres = [message |-> "No handler found for command",
                              commandType |-> cmd.type]
                   /\ qres = [message |-> "No handler found for query",
                              queryType |-> QueryTypeOf(cmd.type)]
              ELSE qres = cres
           /\ Len(qlog) = Len(clog)
           /\ \A k \in 1..Len(clog) :
                  /\ qlog[k].level = IF clog[k].level = "info" THEN "debug"
                                     ELSE clog[k].level
                  /\ Cardinality(DOMAIN qlog[k].meta) = Cardinality(DOMAIN clog[k].meta)

C17_Witness ==
    /\ cst = "resolved" /\ qst = "resolved"
    /\ Len(registered) = 2 /\ Len(cmdHandlers) = 2
    /\ CanHandle(registered[1], cmd) /\ CanHandle(registered[2], cmd)
    /\ qres = "r2"

\* C16: register keeps every handler instance it was given: no registration
\* removes or replaces an instance registered before, and after register(H1);
\* register(H2) a command that only H1 claims is dispatched to H1.
C16_HandlersCoexist ==
    /\ \A i \in 1..Len(registered) :
           \E k \in 1..Len(cmdHandlers) : cmdHandlers[k].h = registered[i]
    /\ (/\ cst # "none" /\ Len(registered) = 2
        /\ CanHandle(registered[1], cmd) /\ ~CanHandle(registered[2], cmd)) =>
           handled = <<registered[1]>>

\* C18: an execute call logs a start entry before any handler is invoked and
\* exactly one terminal entry before it settles (success when the handler
\* resolved, failure when it rejected or none was found), and every entry
\* carries the command's type and its commandId.
C18_LogEntries ==
    cst # "none" =>
        /\ Len(clog) >= 1
        /\ clog[1].level = "info" /\ clog[1].msg = "Executing command"
        /\ cst = "handling" => Len(clog) = 1
        /\ cst = "resolved" =>
               Len(clog) = 2 /\ clog[2].level = "info"
        /\ cst = "rejected" =>
               Len(clog) = 2 /\ clog[2].level = "error"
        /\ \A k \in 1..Len(clog) :
               /\ DOMAIN clog[k].meta = {"commandType", "commandId"}
               /\ clog[k].meta.commandType = cmd.type
               /\ clog[k].meta.commandId = cmd.commandId

\* C19: map on Result.success(v) gives Result.success(f(v)) for every value v;
\* map on Result.failure(e) gives Result.failure(e) and does not call f;
\* flatMap gives f(v) on a success and the failure unchanged on a failure.
C19_MapLaws ==
    rop \in {"map", "flatMap"} =>
        IF rsrc._isSuccess
        THEN /\ rcalls = 1
             /\ result = IF rop = "map"
                         THEN [_isSuccess |-> TRUE, _value |-> rfn[rsrc._value],
                               _error |-> Undefined]
                         ELSE rfn[rsrc._value]
        ELSE /\ rcalls = 0
             /\ result = rsrc

\* C20: of isSuccess and isFailure exactly one is true; reading value succeeds
\* exactly when isSuccess is true and gives the value Result.success was
\* given; reading error succeeds exactly when isFailure is true and gives the
\* error Result.failure was given.
C20_SuccessOrFailure ==
    rread.done =>
        /\ rread.isSuccess # rread.isFailure
        /\ rread.value.ok <=> rread.isSuccess
        /\ rread.error.ok <=> rread.isFailure
        /\ rop = "success" => (rread.isSuccess /\ rread.value = [ok |-> TRUE, value |-> rarg])
        /\ rop = "failure" => (rread.isFailure /\ rread.error = [ok |-> TRUE, value |-> rarg])

\* C21: for page >= 1, limit >= 1 and n matching users, handle returns
\* totalCount = n, totalPages = ceil(n / limit), min(limit, max(0, n -
\* (page - 1) * limit)) items, hasNext iff page < totalPages, hasPrevious iff
\* page > 1, and echoes page and limit.
C21_PaginationArithmetic ==
    gq # NoQuery =>
        LET rest == gq.n - (gq.page - 1) * gq.limit
            left == IF rest < 0 THEN 0 ELSE rest
            ceil == CHOOSE t \in 0..gq.n : t * gq.limit >= gq.n /\ (t = 0 \/ (t - 1) * gq.limit < gq.n)
        IN  /\ gres.totalCount = gq.n
            /\ gres.totalPages = ceil
            /\ Len(gres.items) = IF gq.limit < left THEN gq.limit ELSE left
            /\ gres.hasNext <=> gq.page < ceil
            /\ gres.hasPrevious <=> gq.page > 1
            /\ gres.page = gq.page /\ gres.limit = gq.limit

C21_Witness ==
    /\ gq.page = 2 /\ gq.limit = 10 /\ gq.n = 25
    /\ Len(gres.items) = 10 /\ gres.totalPages = 3
    /\ gres.hasNext /\ gres.hasPrevious


\* ------------------------------------------------------ user command handlers
\* the save and publish invocations in a sequence of invocations
Invocations(steps, op) == {p \in 1..Len(steps) : steps[p].op = op}
StoredUsers == {id \in UserIds : ustore[id].exists}
HistoryInvocations(op) ==
    {<<k, p>> \in (1..Len(uhist)) \X (1..MaxUserCalls) :
        p \in Invocations(uhist[k].steps, op)}

\* C22: a CreateUserCommand with a valid email and name, handled on a
\* repository that holds nothing, with the email reported unique and save
\* and publish resolving, returns success; the repository then holds exactly
\* one user, with the command's email and isActive true, and exactly one
\* UserCreated event was published, whose aggregateId is the stored user's id.
C22_FirstUser ==
    ucall.cmd.cls = "CreateUserCommand" /\ ucall.pc = "done"
    /\ IncludesAt(ucall.cmd.email) /\ Length(ucall.cmd.name) >= 2
    /\ HistoryInvocations("save") = {}
    /\ ucall.thrown = NothingThrown
    /\ (\A p \in 1..Len(usteps) : usteps[p].ok)
    => /\ ures._isSuccess
       /\ Cardinality(StoredUsers) = 1
       /\ \A id \in StoredUsers :
            /\ ustore[id].email = ucall.cmd.email
            /\ ustore[id].isActive
            /\ ures._value = id
            /\ Cardinality(Invocations(usteps, "publish")) = 1
            /\ \A p \in Invocations(usteps, "publish") : usteps[p].id = id
            /\ EventOf(ucall) = [eventType |-> "UserCreated", aggregateId |-> id]

C22_Witness ==
    /\ ucall.cmd.cls = "CreateUserCommand" /\ ucall.pc = "done"
    /\ ures._isSuccess
    /\ HistoryInvocations("save") = {}
    /\ Cardinality(StoredUsers) = 1
    /\ Invocations(usteps, "publish") # {}

\* C23: of two DeactivateUserCommands for the same stored user, when the
\* earlier one returned success, the later one returns the failure
\* 'User is already deactivated' and invokes neither save nor publish, and
\* over all the calls one UserDeactivated event was published for the user.
DeactivateCalls ==
    {k \in 1..Len(uhist) : uhist[k].cmd.cls = "DeactivateUserCommand"}
C23_SecondDeactivateFails ==
    \A i, j \in DeactivateCalls :
        i < j /\ uhist[i].cmd.userId = uhist[j].cmd.userId /\ uhist[i].result._isSuccess
        => /\ ~uhist[j].result._isSuccess
           /\ uhist[j].result._error = "User is already deactivated"
           /\ Invocations(uhist[j].steps, "save") = {}
           /\ Invocations(uhist[j].steps, "publish") = {}
           /\ Cardinality({kp \in HistoryInvocations("publish") :
                   /\ kp[1] \in DeactivateCalls
                   /\ uhist[kp[1]].cmd.userId = uhist[i].cmd.userId}) = 1

C23_Witness ==
    \E i, j \in DeactivateCalls :
        /\ i < j
        /\ uhist[i].cmd.userId = uhist[j].cmd.userId
        /\ uhist[i].result._isSuccess
        /\ ~uhist[j].result._isSuccess

\* C25: in a handle call of the three handlers publish is invoked at most
\* once and only after a save that resolved; a call that fails before it
\* saves (email not unique, user not found, already deactivated, a domain
\* error, a validation error) invokes neither save nor publish.
FailsBeforeSaving ==
    /\ ucall.pc = "done" /\ ~ures._isSuccess
    /\ \/ ures._error \in {"Email already exists", "User not found",
                           "User is already deactivated", "Name cannot be empty",
                           "Invalid role"}
       \/ ures._error \in {Join(errors) : errors \in
               {<<"Invalid email format">>, <<"Name must be at least 2 characters">>,
                <<"Invalid email format", "Name must be at least 2 characters">>}}
       \/ \E p \in Invocations(usteps, "validateUniqueEmail") : ~usteps[p].ok
C25_PublishAfterSave ==
    /\ Cardinality(Invocations(usteps, "publish")) <= 1
    /\ Cardinality(Invocations(usteps, "save")) <= 1
    /\ \A p \in Invocations(usteps, "publish") :
         \E q \in Invocations(usteps, "save") : q < p /\ usteps[q].ok
    /\ ucall.pc = "publish" => \E q \in Invocations(usteps, "save") : usteps[q].ok
    /\ FailsBeforeSaving =>
         Invocations(usteps, "save") = {} /\ Invocations(usteps, "publish") = {}

C25_Witness ==
    /\ ucall.pc = "done"
    /\ ucall.cmd.cls = "UpdateUserCommand"
    /\ Invocations(usteps, "save") # {}
    /\ Invocations(usteps, "publish") # {}

\* C26: a handle call of the three handlers never rejects: whatever the
\* domain service, the entity, the repository or the publisher throws, the
\* call returns a failure Result carrying the error's message.
C26_NeverRejects ==
    /\ ucall.pc # "rejected"
    /\ ucall.thrown # NothingThrown =>
         /\ ucall.pc = "done"
         /\ ~ures._isSuccess
         /\ ures._error = IF ucall.thrown.isError THEN ucall.thrown.message
                          ELSE "Unknown error"

C26_Witness ==
    /\ ucall.thrown = [isError |-> TRUE, message |-> "boom"]
    /\ ucall.pc = "done"
    /\ \E p \in Invocations(usteps, "publish") : ~usteps[p].ok

\* C28: when UpdateUserCommandHandler.handle returns a failure for a stored
\* user, the stored user has the name, role and updatedAt it had before
\* the call.
C28_FailedUpdateLeavesUser ==
    /\ ucall.cmd.cls = "UpdateUserCommand" /\ ucall.pc = "done"
    /\ ~ures._isSuccess
    /\ ucall.before.exists
    => /\ ustore[ucall.cmd.userId].name = ucall.before.name
       /\ ustore[ucall.cmd.userId].role = ucall.before.role
       /\ ustore[ucall.cmd.userId].updatedAt = ucall.before.updatedAt


\* C24: any two distinct command objects, of the same class or of different
\* classes, constructed at any times, have different commandId values.
C24_UniqueCommandIds ==
    \A i, j \in 1..Len(constructed) :
        i # j => constructed[i].commandId # constructed[j].commandId


\* ------------------------------------------------ handler failures and retry
NoCanHandleThrew == pubErr[1] = NoError /\ lastError[1] = NoError

\* C27 as stated, for every maxRetries the constructor takes: when no
\* canHandle throws, RetryableEventBus.publish calls EventBus.publish exactly
\* once, each matching handler is invoked exactly once, and publish resolves.
C27_AnyMaxRetries ==
    kind = "retryPublish" /\ NoCanHandleThrew /\ Quiescent
    => /\ rst[1] = "resolved"
       /\ publishCalls[1] = 1

\* C27 amended: with maxRetries >= 1 and no canHandle throwing, whatever the
\* handlers do, RetryableEventBus.publish invokes EventBus.publish exactly
\* once, every handler that accepts the event is invoked exactly once, and
\* publish never rejects: it is resolved once the call has settled.
C27_FailingHandlerNotRetried ==
    kind = "retryPublish" /\ maxRetries >= 1 /\ NoCanHandleThrew
    => /\ publishCalls[1] = 1
       /\ pst[1] # "rejected"
       /\ rst[1] \in {"awaiting", "resolved"}
       /\ handleCalls[1] <= handlers[events[1]]
       /\ rst[1] = "awaiting" =>
            /\ handleCalls[1] = Len(accepted[1])
            /\ \A p, q \in 1..Len(accepted[1]) : accepted[1][p] = accepted[1][q] => p = q
       /\ Quiescent => rst[1] = "resolved"

\* a handler failed, EventBus.publish resolved all the same, after one invocation
C27_Witness ==
    /\ kind = "retryPublish" /\ maxRetries >= 1 /\ NoCanHandleThrew
    /\ pst[1] = "resolved" /\ publishCalls[1] = 1
    /\ \E k \in 1..Len(promises[1]) : promises[1][k].st = "failed"
    /\ \E k \in 1..Len(promises[1]) : promises[1][k].st = "ok"


\* --------------------------------------------------------------- hooks
\* C29: after any sequence of setTotalItems, goToPage, nextPage, previousPage
\* and setPageSize calls, 1 <= currentPage <= max(1, totalPages) and
\* totalPages = ceil(totalItems / pageSize).
C29_PageWithinRange ==
    /\ 1 <= pstate.currentPage
    /\ pstate.currentPage <= MathMax(1, pstate.totalPages)
    /\ pstate.totalPages = Ceil(pstate.totalItems, pstate.pageSize)

\* C30: isLoading is true in every state in which a promise passed to
\* execute has not yet settled.
C30_LoadingWhilePending ==
    (\E p \in Promises : executed[p] = "pending") => astate.isLoading

====
